---- MODULE Spec2Model ----
(***************************************************************************)
(* Communication service: template registry, field catalog and the         *)
(* generate-letter pipeline, modelled from the controllers, middlewares    *)
(* and services of the repository.                                         *)
(*                                                                         *)
(* Strings whose characters matter (identifiers, hostnames) are sequences  *)
(* of one-character strings; opaque strings (tenant ids, user ids, file    *)
(* ids) are TLA+ strings, with "" for a missing (undefined) value.         *)
(***************************************************************************)
EXTENDS Integers, Sequences, FiniteSets, TLC

VARIABLES
  templates,   \* Template collection: the set of stored template records
  files,       \* document repository (OneDrive): fileId -> package, or NoFile
  fields,      \* bookmark_fields collection: the set of registered keys
  ledger,      \* generated_letters collection: set of records
  blobs,       \* object storage: set of [path, content]
  uuids,       \* the UUIDs randomUUID() has not minted yet
  slots,       \* generateLetter requests in flight, one record per slot
  resp,        \* the response of the request that completed last
  cachedToken, \* graphAuth.service.js: the cached Graph token, or NoToken
  tokenExpiry, \* graphAuth.service.js: when the cache entry lapses
  now,         \* Date.now(), in seconds
  tokenCalls,  \* getGraphToken calls in flight, one record per caller
  users,       \* User collection: whether (tenantId, userId) is unique, and docs
  deliveries   \* user.crm events being handled, one record per prefetch slot

vars ==
  <<templates, files, fields, ledger, blobs, uuids, slots, resp,
    cachedToken, tokenExpiry, now, tokenCalls, users, deliveries>>

\* the state of the Graph token cache and the clock it is read against
tokenVars == <<cachedToken, tokenExpiry, now, tokenCalls>>
userVars == <<users, deliveries>>

----------------------------------------------------------------------------
(* Bounds of the model *)

MaxInFlight == 2      \* generateLetter requests that may be in flight at once
MaxUuid == 2          \* UUIDs randomUUID() can mint in one behaviour
SerialInFlight == 1   \* in flight at once where the template routes run too
SerialUuid == 1       \* UUIDs left to mint there
MaxClock == 7200      \* seconds the clock of the token cache runs for
MaxCallers == 2       \* getGraphToken calls in flight together
MaxPrefetch == 2      \* user.crm events handled together
ClockStep == 1500     \* seconds the clock moves at once while calls interleave
MaxParts == 3         \* parts a scanned text is put together from

----------------------------------------------------------------------------
(* JavaScript values of a JSON body or route parameter *)

Str(s) == [t |-> "string", v |-> s]
Undefined == [t |-> "undefined", v |-> <<>>]
NonString == [t |-> "object", v |-> <<>>]      \* e.g. {"$ne": null}; truthy

Falsy(x) == x.t = "undefined" \/ (x.t = "string" /\ x.v = <<>>)

Rep(c, n) == [i \in 1..n |-> c]

HexChars == {"0", "1", "2", "3", "4", "5", "6", "7", "8", "9",
             "a", "b", "c", "d", "e", "f", "A", "B", "C", "D", "E", "F"}

ObjectIdLen == 24

\* /^[0-9a-fA-F]{24}/.test(s): the pattern without its end anchor
objectIdRegexUnanchored(s) ==
  Len(s) >= ObjectIdLen /\ \A i \in 1..ObjectIdLen : s[i] \in HexChars

\* /^[0-9a-fA-F]{24}$/.test(s)
objectIdRegex(s) == Len(s) = ObjectIdLen /\ \A i \in 1..Len(s) : s[i] \in HexChars

\* validateObjectId: TRUE when it returns true, FALSE when it throws
\* AppError.badRequest
validateObjectId(id) ==
  IF Falsy(id) \/ id.t # "string" THEN FALSE
  ELSE IF ~objectIdRegex(id.v) THEN FALSE
  ELSE TRUE

\* status carried by AppError.badRequest (the class is not part of the sources)
BadRequestStatus == 400

----------------------------------------------------------------------------
(* Data *)

Tenants == {"t1", "t2"}

IdA == Rep("a", ObjectIdLen)     \* a template of tenant t1
IdB == Rep("b", ObjectIdLen)     \* a template of tenant t2
IdC == Rep("c", ObjectIdLen)     \* the ObjectId the next Template.create mints
IdM == Rep("d", ObjectIdLen)     \* a member id
IdShort == Rep("a", ObjectIdLen - 1)

FileIds == {"fA", "fB", "fC"}
NoFile == "none"
NoUpload == "none"                \* req.file absent

NameV1 == <<"n", "1">>
NameV2 == <<"n", "2">>

\* String.prototype.toLowerCase on the hexadecimal alphabet: casting a string
\* to an ObjectId reads its digits case-insensitively
LowerHex(c) ==
  CASE c = "A" -> "a" [] c = "B" -> "b" [] c = "C" -> "c"
    [] c = "D" -> "d" [] c = "E" -> "e" [] c = "F" -> "f"
    [] OTHER -> c

CastObjectId(s) == [i \in 1..Len(s) |-> LowerHex(s[i])]

\* a lookup by _id alone
FindTemplateAnyTenant(id, tenantId) ==
  LET oid == CastObjectId(id.v) IN {d \in templates : d.id = oid}

\* Template.findOne({ _id: id, tenantId }): the matching documents (0 or 1)
FindTemplate(id, tenantId) ==
  LET oid == CastObjectId(id.v) IN
  {d \in templates : d.tenantId = tenantId /\ d.id = oid}

----------------------------------------------------------------------------
(* Responses (response.mw.js) *)

\* the signed URL of a download: the blob it names, what it permits and the
\* window it is valid in (seconds)
NoUrl == [path |-> <<>>, permissions |-> "", startsOn |-> 0, expiresOn |-> 0]

\* uploadedAt: when the artifact's upload completed; data: the member data
\* the letter was merged with
NoLetter ==
  [letterId |-> 0, fileName |-> 0, urlPath |-> <<>>, url |-> NoUrl,
   uploadedAt |-> 0, data |-> <<>>]

\* how the request passed the policy middleware; mode "none": the route has none
NoPolicy == [mode |-> "none", resource |-> "", action |-> ""]

Reply(op, policy, ctx, id, memberId, status, kind, data, calls, letter) ==
  [op |-> op, policy |-> policy, invoked |-> TRUE,
   userId |-> ctx.userId, tenantId |-> ctx.tenantId,
   id |-> id, memberId |-> memberId,
   status |-> status, kind |-> kind, data |-> data, calls |-> calls,
   letter |-> letter, placeholders |-> <<>>, scanned |-> NoFile]

NoCtx == [userId |-> "", tenantId |-> ""]

NoResp ==
  [op |-> "", policy |-> NoPolicy, invoked |-> FALSE, userId |-> "", tenantId |-> "",
   id |-> Undefined, memberId |-> Undefined, status |-> 0, kind |-> "",
   data |-> {}, calls |-> {}, letter |-> NoLetter, placeholders |-> <<>>,
   scanned |-> NoFile]

\* what a response body exposes of a template
Exposed(d, parts) == {[id |-> d.id, owner |-> d.tenantId, part |-> p] : p \in parts}

\* if (!req.userId)
HasUserId(ctx) == ctx.userId # ""

\* if (!req.userId || !req.tenantId)
Authenticated(ctx) == ctx.userId # "" /\ ctx.tenantId # ""

----------------------------------------------------------------------------
(* sanitizeString (validateInput.js) *)

Whitespace == {" ", "\t", "\n"}
Nul == "\\0"

RECURSIVE RemoveNul(_)
RemoveNul(s) ==
  IF s = <<>> THEN <<>>
  ELSE IF Head(s) = Nul THEN RemoveNul(Tail(s))
  ELSE <<Head(s)>> \o RemoveNul(Tail(s))

RECURSIVE TrimLeft(_)
TrimLeft(s) ==
  IF s # <<>> /\ Head(s) \in Whitespace THEN TrimLeft(Tail(s)) ELSE s

RECURSIVE TrimRight(_)
TrimRight(s) ==
  IF s # <<>> /\ s[Len(s)] \in Whitespace
  THEN TrimRight(SubSeq(s, 1, Len(s) - 1)) ELSE s

Trim(s) == TrimRight(TrimLeft(s))

\* input.replace(/\0/g, "").trim(), cut to maxLength; "" for a non-string
sanitizeString(input, maxLength) ==
  IF input.t # "string" THEN <<>>
  ELSE LET sanitized == Trim(RemoveNul(input.v)) IN
       IF Len(sanitized) > maxLength THEN SubSeq(sanitized, 1, maxLength)
       ELSE sanitized

NameMaxLen == 200
TypeMaxLen == 100

----------------------------------------------------------------------------
(* Placeholder extraction (template.controller.js): the scan of              *)
(* word/document.xml for {{name}} markers.  A text is a sequence of          *)
(* characters.                                                               *)

\* the first index at or after i where text holds "}", 0 if there is none
RECURSIVE NextCloseBrace(_, _)
NextCloseBrace(text, i) ==
  IF i > Len(text) THEN 0
  ELSE IF text[i] = "}" THEN i
  ELSE NextCloseBrace(text, i + 1)

\* /\{\{([^}]+)\}\}/ tried at index i: the index of the last character of the
\* match, 0 if the pattern does not match there
MatchEnd(text, i) ==
  IF i + 1 > Len(text) \/ text[i] # "{" \/ text[i + 1] # "{" THEN 0
  ELSE LET j == NextCloseBrace(text, i + 2) IN
       IF j = 0 \/ j = i + 2 \/ j + 1 > Len(text) \/ text[j + 1] # "}" THEN 0
       ELSE j + 1

\* xmlContent.match(placeholderRegex) || []: the matches from left to right,
\* each search resuming after the previous match
RECURSIVE Matches(_, _)
Matches(text, i) ==
  IF i > Len(text) THEN <<>>
  ELSE LET e == MatchEnd(text, i) IN
       IF e # 0 THEN <<SubSeq(text, i, e)>> \o Matches(text, e + 1)
       ELSE Matches(text, i + 1)

\* match.replace(/\{\{|\}\}/g, "")
RECURSIVE StripBraces(_)
StripBraces(m) ==
  IF m = <<>> THEN <<>>
  ELSE IF Len(m) >= 2 /\ m[1] = m[2] /\ m[1] \in {"{", "}"}
    THEN StripBraces(SubSeq(m, 3, Len(m)))
  ELSE <<Head(m)>> \o StripBraces(Tail(m))

\* a list that keeps the first occurrence of each element
FirstOnly(list) ==
  SelectSeq([i \in 1..Len(list) |->
               IF \E k \in 1..(i - 1) : list[k] = list[i] THEN <<>> ELSE list[i]],
            LAMBDA p : p # <<>>)

\* a scan that keeps every occurrence
KeepAll(names) == names

\* [...new Set(names)]: insertion order, one entry per value
Unique(names) == FirstOnly(names)

\* the placeholder names of a document text: each match without its braces,
\* trimmed, the empty ones dropped, then de-duplicated
ScanPlaceholders(text) ==
  LET matches == Matches(text, 1)
      names == [i \in 1..Len(matches) |-> Trim(StripBraces(matches[i]))]
  IN Unique(SelectSeq(names, LAMBDA p : Len(p) > 0))

Marker(name) == <<"{", "{">> \o name \o <<"}", "}">>

KeyMembershipNumber ==
  <<"m", "e", "m", "b", "e", "r", "s", "h", "i", "p", "N", "u", "m", "b", "e", "r">>
KeyForename == <<"f", "o", "r", "e", "n", "a", "m", "e">>

\* the packages uploads carry: two letters, a document without markers and a
\* zip archive that holds no word/document.xml
Packages == {"pkg1", "pkg2", "pkgPlain", "pkgNoBody"}

\* zip.files["word/document.xml"]
HasDocumentXml(pkg) == pkg # "pkgNoBody"

\* documentXml.asText()
DocumentXml(pkg) ==
  CASE pkg = "pkg1" -> <<"<", "p", ">">> \o Marker(KeyMembershipNumber) \o <<"<", "/", "p", ">">>
    [] pkg = "pkg2" -> Marker(<<" ">> \o KeyForename) \o <<" ">> \o Marker(KeyMembershipNumber)
                        \o <<",">> \o Marker(KeyForename)
    [] OTHER -> <<"<", "p", ">", "h", "i", "<", "/", "p", ">">>

\* the scan of each package, computed once
PlaceholderTable ==
  [pkg \in Packages \ {"pkgNoBody"} |-> ScanPlaceholders(DocumentXml(pkg))]

\* an extraction that finds nothing
ExtractsNothing(pkg) == <<>>

ExtractedPlaceholders(pkg) == PlaceholderTable[pkg]

----------------------------------------------------------------------------
(* Template operations (template.controller.js).  pol is how the request    *)
(* passed the policy middleware, ctx the req.userId / req.tenantId the       *)
(* handler sees, fault the collaborator call that fails during the request   *)
(* ("none": no call fails).                                                  *)

NoUploadFile == [pkg |-> NoUpload, docx |-> FALSE]

\* file.mimetype.includes("wordprocessingml") || file.originalname.endsWith(".docx")
IsDocx(file) == file.docx

\* placeholders taken from the request body, else extracted from the file;
\* an extraction failure is logged and yields an empty list
PlaceholdersFor(file, ph) ==
  IF ph.given THEN ph.list
  ELSE IF HasDocumentXml(file.pkg) THEN ExtractedPlaceholders(file.pkg)
  ELSE <<>>

NoPlaceholders == [given |-> FALSE, list |-> <<>>]

TemplateReply(op, pol, ctx, id, status, kind, data, calls) ==
  Reply(op, pol, ctx, id, Undefined, status, kind, data, calls, NoLetter)

\* a response of a handler that opened package pkg to extract placeholders
\* (NoFile: it opened none); a success carries the template's placeholder list
Extracting(reply, pkg, list) ==
  [reply EXCEPT !.scanned = pkg,
                !.placeholders = IF reply.kind = "success" THEN list ELSE <<>>]

getTemplates(pol, ctx, fault) ==
  LET R(status, kind, data, calls) ==
        TemplateReply("getTemplates", pol, ctx, Undefined, status, kind, data, calls)
      found == {d \in templates : d.tenantId = ctx.tenantId}
  IN
  /\ resp' =
       IF ~Authenticated(ctx) THEN R(401, "fail", {}, {})
       ELSE IF fault = "db" THEN R(500, "serverError", {}, {"db.read"})
       ELSE R(200, "success",
              UNION {Exposed(d, {"record"}) : d \in found}, {"db.read"})
  /\ UNCHANGED <<templates, files, fields, ledger, blobs, uuids, slots>>

getTemplate(pol, ctx, id, fault) ==
  LET R(status, kind, data, calls) ==
        TemplateReply("getTemplate", pol, ctx, id, status, kind, data, calls)
      found == FindTemplate(id, ctx.tenantId)
      d == CHOOSE x \in found : TRUE
  IN
  /\ resp' =
       IF ~Authenticated(ctx) THEN R(401, "fail", {}, {})
       ELSE IF ~validateObjectId(id) THEN R(BadRequestStatus, "appError", {}, {})
       ELSE IF fault = "db" THEN R(500, "serverError", {}, {"db.read"})
       ELSE IF found = {} THEN R(200, "notFoundRecord", {}, {"db.read"})
       ELSE IF fault = "repo" \/ files[d.fileId] = NoFile
         THEN R(200, "success", Exposed(d, {"record"}), {"db.read", "repo.fetch"})
       ELSE R(200, "success", Exposed(d, {"record", "fileContent"}),
              {"db.read", "repo.fetch"})
  /\ UNCHANGED <<templates, files, fields, ledger, blobs, uuids, slots>>

deleteTemplate(pol, ctx, id, fault) ==
  LET R(status, kind, data, calls) ==
        TemplateReply("deleteTemplate", pol, ctx, id, status, kind, data, calls)
      found == FindTemplate(id, ctx.tenantId)
      ok == Authenticated(ctx) /\ validateObjectId(id) /\ fault # "db"
  IN
  /\ resp' =
       IF ~Authenticated(ctx) THEN R(401, "fail", {}, {})
       ELSE IF ~validateObjectId(id) THEN R(BadRequestStatus, "appError", {}, {})
       ELSE IF fault = "db" THEN R(500, "serverError", {}, {"db.write"})
       ELSE IF found = {} THEN R(200, "notFoundRecord", {}, {"db.write"})
       ELSE R(200, "success", {}, {"db.write"})
  /\ templates' = IF ok THEN templates \ found ELSE templates
  /\ UNCHANGED <<files, fields, ledger, blobs, uuids, slots>>

extractPlaceholders(pol, ctx, id, fault) ==
  LET R(status, kind, data, calls) ==
        TemplateReply("extractPlaceholders", pol, ctx, id, status, kind, data, calls)
      found == FindTemplate(id, ctx.tenantId)
      d == CHOOSE x \in found : TRUE
      buffer == files[d.fileId]
      saved == [d EXCEPT !.placeholders = ExtractedPlaceholders(buffer)]
      reached == Authenticated(ctx) /\ validateObjectId(id) /\ fault # "db"
                 /\ found # {}
      fetched == reached /\ fault # "repo" /\ buffer # NoFile
      done == fetched /\ HasDocumentXml(buffer) /\ fault # "db2"
  IN
  /\ resp' =
       IF ~Authenticated(ctx) THEN R(401, "fail", {}, {})
       ELSE IF ~validateObjectId(id) THEN R(BadRequestStatus, "appError", {}, {})
       ELSE IF fault = "db" THEN R(500, "serverError", {}, {"db.read"})
       ELSE IF found = {} THEN R(200, "notFoundRecord", {}, {"db.read"})
       ELSE IF ~fetched THEN R(500, "serverError", {}, {"db.read", "repo.fetch"})
       ELSE IF ~HasDocumentXml(buffer)
         THEN Extracting(R(500, "serverError", {}, {"db.read", "repo.fetch"}),
                         buffer, <<>>)
       ELSE IF fault = "db2"
         THEN Extracting(R(500, "serverError", {},
                           {"db.read", "repo.fetch", "db.write"}), buffer, <<>>)
       ELSE Extracting(R(200, "success", Exposed(saved, {"placeholders"}),
                         {"db.read", "repo.fetch", "db.write"}),
                       buffer, saved.placeholders)
  /\ templates' = IF done THEN (templates \ {d}) \cup {saved} ELSE templates
  /\ UNCHANGED <<files, fields, ledger, blobs, uuids, slots>>

\* an upload that stores the content as a new drive item
uploadAsNewItem(fileId, fileBuffer) ==
  LET free == CHOOSE f \in FileIds : files[f] = NoFile IN
  [files EXCEPT ![free] = fileBuffer]

\* updateOneDriveFile (onedrive.service.js): PUT .../items/{fileId}/content, the
\* drive after the content of item fileId was replaced
updateOneDriveFile(fileId, fileBuffer) == [files EXCEPT ![fileId] = fileBuffer]

updateTemplate(pol, ctx, id, name, tempolateType, file, ph, fault) ==
  LET R(status, kind, data, calls) ==
        TemplateReply("updateTemplate", pol, ctx, id, status, kind, data, calls)
      found == FindTemplate(id, ctx.tenantId)
      d == CHOOSE x \in found : TRUE
      hasFile == file # NoUploadFile
      lookedUp == Authenticated(ctx) /\ validateObjectId(id) /\ fault # "db"
                  /\ found # {}
      repoFails == fault = "repo" \/ files[d.fileId] = NoFile
      replaced == lookedUp /\ hasFile /\ IsDocx(file) /\ fault # "catalog"
                  /\ ~repoFails
      sName == sanitizeString(name, NameMaxLen)
      sType == sanitizeString(tempolateType, TypeMaxLen)
      badName == name.t # "undefined" /\ sName = <<>>
      badType == tempolateType.t # "undefined" /\ sType = <<>>
      nothing == ~hasFile /\ name.t = "undefined" /\ tempolateType.t = "undefined"
      updated ==
        [d EXCEPT
           !.placeholders = IF hasFile THEN PlaceholdersFor(file, ph) ELSE @,
           !.name = IF name.t # "undefined" THEN sName ELSE @,
           !.tempolateType = IF tempolateType.t # "undefined" THEN sType ELSE @]
      committed == lookedUp /\ (hasFile => replaced) /\ ~badName /\ ~badType
                   /\ ~nothing /\ fault # "db2"
      fileCalls == IF hasFile THEN {"db.read", "catalog.read", "repo.write"}
                   ELSE {"db.read"}
  IN
  /\ resp' =
       IF ~Authenticated(ctx) THEN R(401, "fail", {}, {})
       ELSE IF ~validateObjectId(id) THEN R(BadRequestStatus, "appError", {}, {})
       ELSE IF fault = "db" THEN R(500, "serverError", {}, {"db.read"})
       ELSE IF found = {} THEN R(200, "notFoundRecord", {}, {"db.read"})
       ELSE IF hasFile /\ ~IsDocx(file) THEN R(400, "fail", {}, {"db.read"})
       ELSE IF hasFile /\ fault = "catalog"
         THEN R(500, "serverError", {}, {"db.read", "catalog.read"})
       ELSE Extracting(
              IF hasFile /\ repoFails THEN R(500, "serverError", {}, fileCalls)
              ELSE IF badName \/ badType \/ nothing THEN R(400, "fail", {}, fileCalls)
              ELSE IF fault = "db2"
                THEN R(500, "serverError", {}, fileCalls \cup {"db.write"})
              ELSE R(200, "success", Exposed(updated, {"record"}),
                     fileCalls \cup {"db.write"}),
              IF hasFile /\ ~ph.given THEN file.pkg ELSE NoFile,
              updated.placeholders)
  /\ files' = IF replaced THEN updateOneDriveFile(d.fileId, file.pkg) ELSE files
  /\ templates' = IF committed THEN (templates \ {d}) \cup {updated} ELSE templates
  /\ UNCHANGED <<fields, ledger, blobs, uuids, slots>>

uploadTemplate(pol, ctx, file, name, tempolateType, ph, fault) ==
  LET R(status, kind, data, calls) ==
        TemplateReply("uploadTemplate", pol, ctx, Undefined, status, kind, data, calls)
      accepted == Authenticated(ctx) /\ file # NoUploadFile /\ IsDocx(file)
                  /\ ~Falsy(name) /\ ~Falsy(tempolateType)
      sName == sanitizeString(name, NameMaxLen)
      sType == sanitizeString(tempolateType, TypeMaxLen)
      stored == accepted /\ fault # "catalog" /\ fault # "repo"
      fileId == CHOOSE f \in FileIds : files[f] = NoFile
      \* the schema requires name and tempolateType: "" fails validation
      valid == sName # <<>> /\ sType # <<>>
      created ==
        [id |-> IdC, tenantId |-> ctx.tenantId, name |-> sName,
         tempolateType |-> sType, fileId |-> fileId,
         placeholders |-> PlaceholdersFor(file, ph), createdBy |-> ctx.userId]
      committed == stored /\ fault # "db2" /\ valid
  IN
  /\ stored => \E f \in FileIds : files[f] = NoFile
  /\ committed => \A d \in templates : d.id # IdC
  /\ resp' =
       IF ~Authenticated(ctx) THEN R(401, "fail", {}, {})
       ELSE IF file = NoUploadFile \/ ~IsDocx(file) THEN R(400, "fail", {}, {})
       ELSE IF Falsy(name) \/ Falsy(tempolateType) THEN R(400, "fail", {}, {})
       ELSE IF fault = "catalog" THEN R(500, "serverError", {}, {"catalog.read"})
       ELSE Extracting(
              IF fault = "repo"
                THEN R(500, "serverError", {}, {"catalog.read", "repo.write"})
              ELSE IF fault = "db2"
                THEN R(500, "serverError", {},
                       {"catalog.read", "repo.write", "db.write"})
              ELSE IF ~valid
                THEN R(BadRequestStatus, "appError", {},
                       {"catalog.read", "repo.write", "db.write"})
              ELSE R(201, "success", Exposed(created, {"record"}),
                     {"catalog.read", "repo.write", "db.write"}),
              IF ph.given THEN NoFile ELSE file.pkg,
              created.placeholders)
  /\ files' = IF stored THEN [files EXCEPT ![fileId] = file.pkg] ELSE files
  /\ templates' = IF committed THEN templates \cup {created} ELSE templates
  /\ UNCHANGED <<fields, ledger, blobs, uuids, slots>>

----------------------------------------------------------------------------
(* Policy middleware (policy.middleware.js, requirePermission) *)

NoUser == [present |-> FALSE, id |-> "", tenantId |-> ""]
User(id, tenantId) == [present |-> TRUE, id |-> id, tenantId |-> tenantId]

\* the user of the bypass branch: from token validation or the decoded token
\* when there is one, else built from the request context with fixed defaults
BypassUser(pre, user) ==
  IF user.present THEN user
  ELSE User(IF pre.userId # "" THEN pre.userId ELSE "bypass-user-id",
            IF pre.tenantId # "" THEN pre.tenantId ELSE "default-tenant")

\* The middleware's verdict on a request: pass (next() is called) with the
\* context it attached, or the status it answered with.
\*   pre    req.userId / req.tenantId before the middleware
\*   token  the bearer token, "" when the header is missing
\*   bypass process.env.AUTH_BYPASS_ENABLED === "true"
\*   eval   what evaluatePolicy returned: kind "permit", "deny" or "error"
\*          (it threw), and the user of the result
requirePermission(resource, action, pre, token, bypass, eval) ==
  LET user == IF bypass THEN BypassUser(pre, eval.user) ELSE eval.user
      permit == bypass \/ eval.kind = "permit"
      userId == IF user.present THEN user.id ELSE pre.userId
      tenantId == IF user.present THEN user.tenantId ELSE pre.tenantId
      blocked(status) ==
        [pass |-> FALSE, status |-> status, ctx |-> NoCtx, policy |-> NoPolicy]
  IN
  IF token = "" THEN blocked(401)
  ELSE IF ~bypass /\ eval.kind = "error" THEN blocked(500)
  ELSE IF ~permit THEN blocked(403)
  ELSE IF tenantId = "" THEN blocked(403)
  ELSE IF userId = "" THEN blocked(403)
  ELSE [pass |-> TRUE, status |-> 0,
        ctx |-> [userId |-> userId, tenantId |-> tenantId],
        policy |-> [mode |-> IF bypass THEN "bypass" ELSE "permit",
                    resource |-> resource, action |-> action]]

\* the response of a request the middleware answered itself
Blocked(op, status) ==
  [NoResp EXCEPT !.op = op, !.status = status, !.kind = "policy",
                 !.policy = [mode |-> "blocked", resource |-> "", action |-> ""]]

\* The routers (letter.routes.js, template.routes.js): the action each route
\* asks the middleware to authorize, "" where the route mounts the handler
\* without it
RouteAction(op) ==
  CASE op = "generateLetter" -> "create"
    [] op = "getBookmarkFields" -> "read"
    [] op = "createBookmarkField" -> "create"
    [] op = "updateBookmarkField" -> "write"
    [] op = "deleteBookmarkField" -> "delete"
    [] OTHER -> ""

----------------------------------------------------------------------------
(* validateUrl (validateInput.js).  A URL is given by its scheme and host as *)
(* written; new URL() fails on an empty host and lower-cases the host of an  *)
(* http(s) URL.                                                              *)

HostProfile == <<"p", "r", "o", "f", "i", "l", "e", "-", "s", "e", "r", "v", "i", "c", "e">>
HostSubscription == <<"s", "u", "b", "s", "c", "r", "i", "p", "t", "i", "o", "n", "-", "s", "e", "r", "v", "i", "c", "e">>
HostAccount == <<"a", "c", "c", "o", "u", "n", "t", "-", "s", "e", "r", "v", "i", "c", "e">>
HostLocalhost == <<"l", "o", "c", "a", "l", "h", "o", "s", "t">>
HostLoopback == <<"1", "2", "7", ".", "0", ".", "0", ".", "1">>
HostAny == <<"0", ".", "0", ".", "0", ".", "0">>
HostTen == <<"1", "0", ".", "0", ".", "0", ".", "5">>
HostOneSeven == <<"1", "7", "2", ".", "1", "6", ".", "0", ".", "1">>
HostOneSevenTop == <<"1", "7", "2", ".", "3", "1", ".", "9", ".", "9">>
HostOneNine == <<"1", "9", "2", ".", "1", "6", "8", ".", "1", ".", "1">>
HostEvil == <<"e", "v", "i", "l", "p", "r", "o", "f", "i", "l", "e", "-", "s", "e", "r", "v", "i", "c", "e", ".", "e", "x", "a", "m", "p", "l", "e", ".", "c", "o", "m">>
HostSub == <<"a", "p", "i", ".", "p", "r", "o", "f", "i", "l", "e", "-", "s", "e", "r", "v", "i", "c", "e">>
HostSubUpper == <<"A", "P", "I", ".", "P", "r", "o", "f", "i", "l", "e", "-", "S", "e", "r", "v", "i", "c", "e">>
HostPublic == <<"e", "x", "a", "m", "p", "l", "e", ".", "c", "o", "m">>
HostNearPrivate == <<"1", "7", "2", ".", "3", "2", ".", "0", ".", "1">>

ToLowerChar(c) ==
  CASE c = "A" -> "a" []
    c = "B" -> "b" []
    c = "C" -> "c" []
    c = "D" -> "d" []
    c = "E" -> "e" []
    c = "F" -> "f" []
    c = "G" -> "g" []
    c = "H" -> "h" []
    c = "I" -> "i" []
    c = "J" -> "j" []
    c = "K" -> "k" []
    c = "L" -> "l" []
    c = "M" -> "m" []
    c = "N" -> "n" []
    c = "O" -> "o" []
    c = "P" -> "p" []
    c = "Q" -> "q" []
    c = "R" -> "r" []
    c = "S" -> "s" []
    c = "T" -> "t" []
    c = "U" -> "u" []
    c = "V" -> "v" []
    c = "W" -> "w" []
    c = "X" -> "x" []
    c = "Y" -> "y" []
    c = "Z" -> "z"
    [] OTHER -> c

toLowerCase(s) == [i \in 1..Len(s) |-> ToLowerChar(s[i])]

startsWith(s, prefix) ==
  Len(s) >= Len(prefix) /\ SubSeq(s, 1, Len(prefix)) = prefix

endsWith(s, suffix) ==
  Len(s) >= Len(suffix) /\ SubSeq(s, Len(s) - Len(suffix) + 1, Len(s)) = suffix

Url(scheme, host) == [scheme |-> scheme, host |-> host]

\* new URL(url): ok FALSE when the constructor throws
ParseUrl(url) ==
  IF url.host = <<>> \/ url.scheme = ""
  THEN [ok |-> FALSE, protocol |-> "", hostname |-> <<>>]
  ELSE [ok |-> TRUE, protocol |-> url.scheme,
        hostname |-> IF url.scheme \in {"http:", "https:"}
                     THEN toLowerCase(url.host) ELSE url.host]

PrivatePrefixes ==
  {<<"1", "9", "2", ".", "1", "6", "8", ".">>,
   <<"1", "0", ".">>,
   <<"1", "7", "2", ".", "1", "6", ".">>,
   <<"1", "7", "2", ".", "1", "7", ".">>,
   <<"1", "7", "2", ".", "1", "8", ".">>,
   <<"1", "7", "2", ".", "1", "9", ".">>,
   <<"1", "7", "2", ".", "2", "0", ".">>,
   <<"1", "7", "2", ".", "2", "1", ".">>,
   <<"1", "7", "2", ".", "2", "2", ".">>,
   <<"1", "7", "2", ".", "2", "3", ".">>,
   <<"1", "7", "2", ".", "2", "4", ".">>,
   <<"1", "7", "2", ".", "2", "5", ".">>,
   <<"1", "7", "2", ".", "2", "6", ".">>,
   <<"1", "7", "2", ".", "2", "7", ".">>,
   <<"1", "7", "2", ".", "2", "8", ".">>,
   <<"1", "7", "2", ".", "2", "9", ".">>,
   <<"1", "7", "2", ".", "3", "0", ".">>,
   <<"1", "7", "2", ".", "3", "1", ".">>}

\* the guard with the loopback names only
IsLoopbackName(hostname) ==
  hostname \in {HostLocalhost, HostLoopback, HostAny}

\* the literal loopback names and private prefixes the guard blocks
IsBlockedHost(hostname) ==
  \/ hostname = HostLocalhost
  \/ hostname = HostLoopback
  \/ hostname = HostAny
  \/ \E p \in PrivatePrefixes : startsWith(hostname, p)

\* allowedHosts.some((allowed) => hostname.includes(allowed.toLowerCase()))
IsAllowedHostIncludes(hostname, allowedHosts) ==
  \E i \in 1..Len(allowedHosts) :
    LET allowedHost == toLowerCase(allowedHosts[i]) IN
    \E k \in 1..(Len(hostname) + 1) :
      /\ k + Len(allowedHost) - 1 <= Len(hostname)
      /\ SubSeq(hostname, k, k + Len(allowedHost) - 1) = allowedHost

\* allowedHosts.some(...)
IsAllowedHost(hostname, allowedHosts) ==
  \E i \in 1..Len(allowedHosts) :
    LET allowedHost == toLowerCase(allowedHosts[i]) IN
    hostname = allowedHost \/ endsWith(hostname, <<".">> \o allowedHost)

\* TRUE when validateUrl returns the parsed URL, FALSE when it throws
\* AppError.badRequest
validateUrl(url, allowedHosts) ==
  LET parsedUrl == ParseUrl(url) IN
  IF ~parsedUrl.ok THEN FALSE
  ELSE IF parsedUrl.protocol \notin {"http:", "https:"} THEN FALSE
  ELSE IF Len(allowedHosts) > 0
          /\ ~IsAllowedHost(toLowerCase(parsedUrl.hostname), allowedHosts)
    THEN FALSE
  ELSE IF IsBlockedHost(parsedUrl.hostname) THEN FALSE
  ELSE TRUE

----------------------------------------------------------------------------
(* Field catalog operations (bookmark.controller.js) *)

IdF1 == Rep("1", ObjectIdLen)    \* the catalog entry present at start
IdF2 == Rep("2", ObjectIdLen)    \* the ObjectId the next BookmarkField.create mints

KeyMax == 100

FieldReply(op, pol, ctx, id, status, kind, calls) ==
  Reply(op, pol, ctx, id, Undefined, status, kind, {}, calls, NoLetter)

getBookmarkFields(pol, ctx, fault) ==
  LET R(status, kind, calls) ==
        FieldReply("getBookmarkFields", pol, ctx, Undefined, status, kind, calls)
  IN
  /\ resp' =
       IF ~Authenticated(ctx) THEN R(401, "fail", {})
       ELSE IF fault = "db" THEN R(500, "serverError", {"catalog.read"})
       ELSE R(200, "success", {"catalog.read"})
  /\ UNCHANGED <<templates, files, fields, ledger, blobs, uuids, slots>>

createBookmarkField(pol, ctx, key, fault) ==
  LET R(status, kind, calls) ==
        FieldReply("createBookmarkField", pol, ctx, Undefined, status, kind, calls)
      sanitizedKey == sanitizeString(key, KeyMax)
      accepted == Authenticated(ctx) /\ ~Falsy(key) /\ sanitizedKey # <<>>
      duplicate == \E f \in fields : f.key = sanitizedKey
      committed == accepted /\ fault # "db" /\ ~duplicate
  IN
  /\ committed => \A f \in fields : f.id # IdF2
  /\ resp' =
       IF ~Authenticated(ctx) THEN R(401, "fail", {})
       ELSE IF Falsy(key) \/ sanitizedKey = <<>> THEN R(400, "fail", {})
       ELSE IF fault = "db" THEN R(500, "serverError", {"catalog.write"})
       ELSE IF duplicate THEN R(409, "appError", {"catalog.write"})
       ELSE R(201, "success", {"catalog.write"})
  /\ fields' = IF committed THEN fields \cup {[id |-> IdF2, key |-> sanitizedKey]}
               ELSE fields
  /\ UNCHANGED <<templates, files, ledger, blobs, uuids, slots>>

updateBookmarkField(pol, ctx, id, key, fault) ==
  LET R(status, kind, calls) ==
        FieldReply("updateBookmarkField", pol, ctx, id, status, kind, calls)
      oid == CastObjectId(id.v)
      found == {f \in fields : f.id = oid}
      f == CHOOSE x \in found : TRUE
      sanitizedKey == sanitizeString(key, KeyMax)
      badKey == key.t # "undefined" /\ sanitizedKey = <<>>
      updated == [f EXCEPT !.key = IF key.t # "undefined" THEN sanitizedKey ELSE @]
      duplicate == \E g \in fields \ {f} : g.key = updated.key
      committed == Authenticated(ctx) /\ validateObjectId(id) /\ fault # "db"
                   /\ found # {} /\ ~badKey /\ fault # "db2" /\ ~duplicate
  IN
  /\ resp' =
       IF ~Authenticated(ctx) THEN R(401, "fail", {})
       ELSE IF ~validateObjectId(id) THEN R(BadRequestStatus, "appError", {})
       ELSE IF fault = "db" THEN R(500, "serverError", {"catalog.read"})
       ELSE IF found = {} THEN R(200, "notFoundRecord", {"catalog.read"})
       ELSE IF badKey THEN R(400, "fail", {"catalog.read"})
       ELSE IF fault = "db2"
         THEN R(500, "serverError", {"catalog.read", "catalog.write"})
       ELSE IF duplicate THEN R(409, "appError", {"catalog.read", "catalog.write"})
       ELSE R(200, "success", {"catalog.read", "catalog.write"})
  /\ fields' = IF committed THEN (fields \ {f}) \cup {updated} ELSE fields
  /\ UNCHANGED <<templates, files, ledger, blobs, uuids, slots>>

deleteBookmarkField(pol, ctx, id, fault) ==
  LET R(status, kind, calls) ==
        FieldReply("deleteBookmarkField", pol, ctx, id, status, kind, calls)
      oid == CastObjectId(id.v)
      found == {f \in fields : f.id = oid}
      ok == Authenticated(ctx) /\ validateObjectId(id) /\ fault # "db"
  IN
  /\ resp' =
       IF ~Authenticated(ctx) THEN R(401, "fail", {})
       ELSE IF ~validateObjectId(id) THEN R(BadRequestStatus, "appError", {})
       ELSE IF fault = "db" THEN R(500, "serverError", {"catalog.write"})
       ELSE IF found = {} THEN R(200, "notFoundRecord", {"catalog.write"})
       ELSE R(200, "success", {"catalog.write"})
  /\ fields' = IF ok THEN fields \ found ELSE fields
  /\ UNCHANGED <<templates, files, ledger, blobs, uuids, slots>>

----------------------------------------------------------------------------
(* collectMemberData (memberData.service.js) *)

\* process.env as collectMemberData reads it on each call
EnvDefault ==
  [profile |-> Url("http:", HostProfile),
   subscription |-> Url("http:", HostSubscription),
   account |-> Url("http:", HostAccount),
   allowed |-> <<>>]

\* SUBSCRIPTION_SERVICE_URL names a private address that ALLOWED_SERVICE_HOSTS
\* lists as well
EnvPrivate ==
  [EnvDefault EXCEPT !.subscription = Url("http:", HostTen),
                     !.allowed = <<HostTen>>]

EnvConfigs == {EnvDefault, EnvPrivate}

\* configurations in which any of the three URLs may name a foreign, a
\* private or a loopback host
GuardedEnvs ==
  {[profile |-> Url("http:", h1), subscription |-> Url("http:", h2),
    account |-> Url("http:", h3), allowed |-> a] :
     h1 \in {HostProfile, HostEvil}, h2 \in {HostSubscription, HostTen, HostSub},
     h3 \in {HostAccount, HostLocalhost}, a \in {<<>>, <<HostTen>>, <<HostEvil>>}}

AllowedHosts(env) == env.allowed \o <<HostProfile, HostSubscription, HostAccount>>

\* a guard that looks at the profile URL only
UrlGuardProfileOnly(env) == validateUrl(env.profile, AllowedHosts(env))

\* the three validateUrl calls made before any request is sent
UrlGuardPasses(env) ==
  /\ validateUrl(env.profile, AllowedHosts(env))
  /\ validateUrl(env.subscription, AllowedHosts(env))
  /\ validateUrl(env.account, AllowedHosts(env))

\* the guard's verdict for each configuration, computed once
UrlGuardVerdict == [env \in GuardedEnvs |-> UrlGuardPasses(env)]

\* lines 38-51: the host of the URL each axios.get is given
RequestedHost(env, call) ==
  CASE call = "upstream.profile" -> ParseUrl(env.profile).hostname
    [] call = "upstream.subscription" -> ParseUrl(env.subscription).hostname
    [] call = "upstream.account" -> ParseUrl(env.account).hostname

\* what an upstream call can come back with
Upstream == {"2xx", "4xx", "5xx", "timeout", "refused"}

\* a client that rejects every status but 2xx
UpstreamResolvesOnSuccess(o) == o = "2xx"

\* a client that resolves whatever the upstream did
UpstreamAlwaysResolves(o) == TRUE

\* validateStatus: (status) => status < 500; a timeout and a refused
\* connection reject
UpstreamResolves(o) == o \in {"2xx", "4xx"}

\* The result of collectMemberData for upstream outcomes o: the requests it
\* sent and whether it returned ("ok"), threw an AppError ("badRequest") or
\* rethrew a transport error ("error")
collectMemberData(memberId, env, o) ==
  IF ~validateObjectId(Str(memberId)) THEN [out |-> "badRequest", sent |-> {}]
  ELSE IF ~UrlGuardVerdict[env] THEN [out |-> "badRequest", sent |-> {}]
  ELSE IF ~UpstreamResolves(o[1])
    THEN [out |-> "error", sent |-> {"upstream.profile"}]
  ELSE IF ~UpstreamResolves(o[2])
    THEN [out |-> "error", sent |-> {"upstream.profile", "upstream.subscription"}]
  ELSE IF ~UpstreamResolves(o[3])
    THEN [out |-> "error",
          sent |-> {"upstream.profile", "upstream.subscription", "upstream.account"}]
  ELSE [out |-> "ok",
        sent |-> {"upstream.profile", "upstream.subscription", "upstream.account"}]

AllUpstream == {"upstream.profile", "upstream.subscription", "upstream.account"}

\* mergeTemplate throws on a package the merge library cannot open
Renderable(pkg) == pkg # NoFile /\ HasDocumentXml(pkg)

----------------------------------------------------------------------------
(* The merge (memberData.service.js 53-61, mailMerge.service.js): the data   *)
(* map built from the three upstream answers and the tags of the document    *)
(* resolved against it                                                       *)

\* the keys the seed script gives the Field Catalog
FieldCatalogKeys ==
  {<<"n", "o", "r", "m", "a", "l", "i", "z", "e", "d", "E", "m", "a", "i", "l">>,
   KeyMembershipNumber,
   <<"t", "i", "t", "l", "e">>,
   <<"s", "u", "r", "n", "a", "m", "e">>,
   KeyForename,
   <<"g", "e", "n", "d", "e", "r">>,
   <<"d", "a", "t", "e", "O", "f", "B", "i", "r", "t", "h">>,
   <<"b", "u", "i", "l", "d", "i", "n", "g", "O", "r", "H", "o", "u", "s", "e">>,
   <<"s", "t", "r", "e", "e", "t", "O", "r", "R", "o", "a", "d">>,
   <<"a", "r", "e", "a", "O", "r", "T", "o", "w", "n">>,
   <<"c", "o", "u", "n", "t", "y", "C", "i", "t", "y", "O", "r", "P", "o", "s", "t", "C", "o", "d", "e">>,
   <<"e", "i", "r", "c", "o", "d", "e">>,
   <<"c", "o", "u", "n", "t", "r", "y">>,
   <<"f", "u", "l", "l", "A", "d", "d", "r", "e", "s", "s">>,
   <<"m", "o", "b", "i", "l", "e", "N", "u", "m", "b", "e", "r">>,
   <<"p", "e", "r", "s", "o", "n", "a", "l", "E", "m", "a", "i", "l">>,
   <<"w", "o", "r", "k", "E", "m", "a", "i", "l">>,
   <<"s", "t", "u", "d", "y", "L", "o", "c", "a", "t", "i", "o", "n">>,
   <<"s", "t", "a", "r", "t", "D", "a", "t", "e">>,
   <<"g", "r", "a", "d", "u", "a", "t", "i", "o", "n", "D", "a", "t", "e">>,
   <<"w", "o", "r", "k", "L", "o", "c", "a", "t", "i", "o", "n">>,
   <<"p", "a", "y", "r", "o", "l", "l", "N", "o">>,
   <<"b", "r", "a", "n", "c", "h">>,
   <<"r", "e", "g", "i", "o", "n">>,
   <<"g", "r", "a", "d", "e">>,
   <<"n", "m", "b", "i", "N", "u", "m", "b", "e", "r">>,
   <<"s", "u", "b", "s", "c", "r", "i", "p", "t", "i", "o", "n", "S", "t", "a", "t", "u", "s">>,
   <<"e", "n", "d", "D", "a", "t", "e">>,
   <<"d", "a", "t", "e", "C", "a", "n", "c", "e", "l", "l", "e", "d">>,
   <<"d", "a", "t", "e", "R", "e", "s", "i", "g", "n", "e", "d">>,
   <<"r", "e", "m", "i", "n", "d", "e", "r", "s", "T", "y", "p", "e">>,
   <<"r", "e", "m", "i", "n", "d", "e", "r", "s", "R", "e", "m", "i", "n", "d", "e", "r", "D", "a", "t", "e">>,
   <<"m", "e", "m", "b", "e", "r", "s", "h", "i", "p", "C", "a", "t", "e", "g", "o", "r", "y">>,
   <<"p", "a", "y", "m", "e", "n", "t", "T", "y", "p", "e">>,
   <<"p", "a", "y", "m", "e", "n", "t", "F", "r", "e", "q", "u", "e", "n", "c", "y">>}

\* the keys of the map collectMemberData returns
DataMemberName == <<"M", "e", "m", "b", "e", "r", "N", "a", "m", "e">>
DataMembershipNumber == <<"M", "e", "m", "b", "e", "r", "s", "h", "i", "p", "N", "u", "m", "b", "e", "r">>
DataDOB == <<"D", "O", "B">>
DataAddressLine1 == <<"A", "d", "d", "r", "e", "s", "s", "L", "i", "n", "e", "1">>
DataMembershipStatus == <<"M", "e", "m", "b", "e", "r", "s", "h", "i", "p", "S", "t", "a", "t", "u", "s">>
DataExpiryDate == <<"E", "x", "p", "i", "r", "y", "D", "a", "t", "e">>
DataOutstandingBalance == <<"O", "u", "t", "s", "t", "a", "n", "d", "i", "n", "g", "B", "a", "l", "a", "n", "c", "e">>

MemberDataKeys ==
  {DataMemberName, DataMembershipNumber, DataDOB, DataAddressLine1,
   DataMembershipStatus, DataExpiryDate, DataOutstandingBalance}

\* a field the upstream answer does not carry
Absent == "undefined"

\* the return of collectMemberData for the three response bodies
MemberData(profile, subscription, account) ==
  [key \in MemberDataKeys |->
     CASE key = DataMemberName -> profile.fullName
       [] key = DataMembershipNumber -> profile.membershipNumber
       [] key = DataDOB -> profile.dob
       [] key = DataAddressLine1 -> profile.line1
       [] key = DataMembershipStatus -> subscription.status
       [] key = DataExpiryDate -> subscription.expiryDate
       [] key = DataOutstandingBalance -> account.balance]

Profile(fullName, membershipNumber) ==
  [fullName |-> fullName, membershipNumber |-> membershipNumber,
   dob |-> Absent, line1 |-> Absent]

\* what each service answers: its record on a 2xx, an error document that
\* carries none of the fields on a 4xx
ProfileAnswer(o) ==
  IF o = "2xx" THEN Profile("Ann", "M-123") ELSE Profile(Absent, Absent)

SubscriptionAnswer(o) ==
  IF o = "2xx" THEN [status |-> "active", expiryDate |-> "2027-01-01"]
  ELSE [status |-> Absent, expiryDate |-> Absent]

AccountAnswer(o) == IF o = "2xx" THEN [balance |-> "0"] ELSE [balance |-> Absent]

\* lines 53-61 for the three answers of a call in which every request resolved
CollectedData(o) ==
  MemberData(ProfileAnswer(o[1]), SubscriptionAnswer(o[2]), AccountAnswer(o[3]))

\* doc.setData(data); doc.render(): each tag of the document with the value
\* the data holds under the tag's name, Absent where it holds none
mergeTemplate(text, data) ==
  LET tags == ScanPlaceholders(text) IN
  {[tag |-> tags[i],
    value |-> IF tags[i] \in DOMAIN data THEN data[tags[i]] ELSE Absent] :
     i \in 1..Len(tags)}

----------------------------------------------------------------------------
(* generateLetter (letter.controller.js): one action per stretch of the      *)
(* handler between two awaits                                                *)

Idle ==
  [pc |-> "idle", policy |-> NoPolicy, userId |-> "", tenantId |-> "",
   memberId |-> <<>>, templateId |-> <<>>, fileId |-> "", buffer |-> "",
   uuid |-> 0, uploadedAt |-> 0, data |-> <<>>]

LetterReply(r, status, kind, calls, letter) ==
  Reply("generateLetter", r.policy, [userId |-> r.userId, tenantId |-> r.tenantId],
        Str(r.templateId), Str(r.memberId), status, kind, {}, calls, letter)

\* a path that leaves the generated file name out
BlobPathPerMember(tenantId, memberId, uuid) == <<tenantId, memberId, 0>>

\* a path without the tenant's folder
BlobPathUntenanted(tenantId, memberId, uuid) == <<"", memberId, uuid>>

\* `${req.tenantId}/${memberId}/${fileName}`, fileName = `letter-${uuid}.docx`
BlobPath(tenantId, memberId, uuid) == <<tenantId, memberId, uuid>>

\* the request ends: its slot is free again
Finish(s, reply) ==
  /\ resp' = reply
  /\ slots' = [slots EXCEPT ![s] = Idle]

\* lines 17-37: the checks made before the first await, then Template.findOne
\* is issued
generateLetter(pol, ctx, memberId, templateId) ==
  LET R(status, kind) ==
        Reply("generateLetter", pol, ctx, templateId, memberId, status, kind,
              {}, {}, NoLetter)
      accepted == Authenticated(ctx) /\ ~Falsy(memberId) /\ ~Falsy(templateId)
                  /\ validateObjectId(templateId) /\ validateObjectId(memberId)
      free == {s \in DOMAIN slots : slots[s].pc = "idle"}
      s == CHOOSE x \in free : \A y \in free : x <= y
  IN
  IF accepted
  THEN /\ free # {}
       /\ slots' = [slots EXCEPT ![s] =
            [Idle EXCEPT !.pc = "findOne", !.policy = pol,
                         !.userId = ctx.userId, !.tenantId = ctx.tenantId,
                         !.memberId = memberId.v, !.templateId = templateId.v]]
       /\ UNCHANGED <<templates, files, fields, ledger, blobs, uuids, resp>>
  ELSE /\ resp' =
            IF ~Authenticated(ctx) THEN R(401, "fail")
            ELSE IF Falsy(memberId) \/ Falsy(templateId) THEN R(400, "fail")
            ELSE R(BadRequestStatus, "appError")
       /\ UNCHANGED <<templates, files, fields, ledger, blobs, uuids, slots>>

\* lines 34-41: Template.findOne resolves
GenFindOne(s, fault) ==
  LET r == slots[s]
      found == FindTemplate(Str(r.templateId), r.tenantId)
      d == CHOOSE x \in found : TRUE
  IN
  /\ r.pc = "findOne"
  /\ IF fault = "db"
       THEN Finish(s, LetterReply(r, 500, "serverError", {"db.read"}, NoLetter))
     ELSE IF found = {}
       THEN Finish(s, LetterReply(r, 404, "notFound", {"db.read"}, NoLetter))
     ELSE /\ slots' = [slots EXCEPT ![s] = [r EXCEPT !.pc = "getFile",
                                                      !.fileId = d.fileId]]
          /\ UNCHANGED resp
  /\ UNCHANGED <<templates, files, fields, ledger, blobs, uuids>>

\* line 43: getOneDriveFile resolves
GenGetFile(s, fault) ==
  LET r == slots[s] IN
  /\ r.pc = "getFile"
  /\ IF fault = "repo" \/ files[r.fileId] = NoFile
       THEN Finish(s, LetterReply(r, 500, "serverError",
                                  {"db.read", "repo.fetch"}, NoLetter))
     ELSE /\ slots' = [slots EXCEPT ![s] = [r EXCEPT !.pc = "collect",
                                                      !.buffer = files[r.fileId]]]
          /\ UNCHANGED resp
  /\ UNCHANGED <<templates, files, fields, ledger, blobs, uuids>>

\* lines 44-50: collectMemberData, mergeTemplate, the path, then uploadLetter
\* is issued
GenCollect(s, env, o) ==
  LET r == slots[s]
      c == collectMemberData(r.memberId, env, o)
      calls == {"db.read", "repo.fetch"} \cup c.sent
      \* randomUUID(): a value no earlier call returned
      uuid == CHOOSE u \in uuids : \A v \in uuids : u <= v
  IN
  /\ r.pc = "collect"
  /\ IF c.out = "badRequest"
       THEN /\ Finish(s, LetterReply(r, BadRequestStatus, "appError", calls, NoLetter))
            /\ UNCHANGED uuids
     ELSE IF c.out = "error" \/ ~Renderable(r.buffer)
       THEN /\ Finish(s, LetterReply(r, 500, "serverError", calls, NoLetter))
            /\ UNCHANGED uuids
     ELSE /\ uuids # {}
          /\ uuids' = uuids \ {uuid}
          /\ slots' = [slots EXCEPT ![s] = [r EXCEPT !.pc = "upload",
                                                      !.uuid = uuid,
                                                      !.data = CollectedData(o)]]
          /\ UNCHANGED resp
  /\ UNCHANGED <<templates, files, fields, ledger, blobs>>

UrlLifetimeSeconds == 3600

\* a URL that also permits writing
generateWritableUrl(blobPath, at) ==
  [path |-> blobPath, permissions |-> "rw", startsOn |-> at,
   expiresOn |-> at + UrlLifetimeSeconds]

\* generateDownloadUrl (db.js): a SAS for blobPath with permission "r", valid
\* from the instant of the call for 60 * 60 * 1000 ms
generateDownloadUrl(blobPath, at) ==
  [path |-> blobPath, permissions |-> "r", startsOn |-> at,
   expiresOn |-> at + UrlLifetimeSeconds]

\* an upload whose failure is not propagated: the handler goes on to write the
\* ledger record although nothing was stored
GenUploadUnchecked(s, fault) ==
  LET r == slots[s] IN
  /\ r.pc = "upload"
  /\ blobs' = IF fault = "blob" THEN blobs
              ELSE blobs \cup {[path |-> <<r.tenantId, r.memberId, r.uuid>>,
                                content |-> r.buffer]}
  /\ slots' = [slots EXCEPT ![s] = [r EXCEPT !.pc = "create"]]
  /\ UNCHANGED <<templates, files, fields, ledger, uuids, resp>>

\* lines 50-56: uploadLetter resolves, then GeneratedLetter.create is issued
GenUpload(s, fault) ==
  LET r == slots[s]
      calls == {"db.read", "repo.fetch", "blob.upload"} \cup AllUpstream
  IN
  /\ r.pc = "upload"
  /\ IF fault = "blob"
       THEN /\ Finish(s, LetterReply(r, 500, "serverError", calls, NoLetter))
            /\ UNCHANGED blobs
     ELSE /\ blobs' = blobs \cup
               {[path |-> BlobPath(r.tenantId, r.memberId, r.uuid),
                 content |-> r.buffer]}
          /\ slots' = [slots EXCEPT ![s] = [r EXCEPT !.pc = "create",
                                                      !.uploadedAt = now]]
          /\ UNCHANGED resp
  /\ UNCHANGED <<templates, files, fields, ledger, uuids>>

\* a create whose record is stored although the call is reported as failed
GenCreateUnacknowledged(s, fault) ==
  LET r == slots[s]
      calls == {"db.read", "repo.fetch", "blob.upload", "db.write"} \cup AllUpstream
      blobPath == <<r.tenantId, r.memberId, r.uuid>>
      letterId == Cardinality(ledger) + 1
      record == [id |-> letterId, memberId |-> r.memberId,
                 templateId |-> r.templateId, fileName |-> r.uuid,
                 blobPath |-> blobPath, contentType |-> "docx",
                 tenantId |-> r.tenantId]
  IN
  /\ r.pc = "create"
  /\ ledger' = ledger \cup {record}
  /\ slots' = [slots EXCEPT ![s] = Idle]
  /\ resp' = IF fault = "db"
               THEN LetterReply(r, 500, "serverError", calls, NoLetter)
               ELSE LetterReply(r, 201, "success", calls,
                                [letterId |-> letterId, fileName |-> r.uuid,
                                 urlPath |-> blobPath,
                                 url |-> generateDownloadUrl(blobPath, now),
                                 uploadedAt |-> r.uploadedAt, data |-> r.data])
  /\ UNCHANGED <<templates, files, fields, blobs, uuids>>

\* a create that keeps one entry per member: the new record replaces the
\* member's earlier one
GenCreateUpsert(s, fault) ==
  LET r == slots[s]
      calls == {"db.read", "repo.fetch", "blob.upload", "db.write"} \cup AllUpstream
      blobPath == <<r.tenantId, r.memberId, r.uuid>>
      letterId == Cardinality(ledger) + 1
      record == [id |-> letterId, memberId |-> r.memberId,
                 templateId |-> r.templateId, fileName |-> r.uuid,
                 blobPath |-> blobPath, contentType |-> "docx",
                 tenantId |-> r.tenantId]
  IN
  /\ r.pc = "create"
  /\ ledger' = {e \in ledger : e.memberId # r.memberId} \cup {record}
  /\ slots' = [slots EXCEPT ![s] = Idle]
  /\ resp' = LetterReply(r, 201, "success", calls,
                         [letterId |-> letterId, fileName |-> r.uuid,
                          urlPath |-> blobPath,
                          url |-> generateDownloadUrl(blobPath, now),
                          uploadedAt |-> r.uploadedAt, data |-> r.data])
  /\ UNCHANGED <<templates, files, fields, blobs, uuids>>

\* GeneratedLetterSchema: the document stored for the object given to
\* create().  It holds the paths the schema declares (and the _id); the
\* schema declares no createdBy, and a field without a path is not stored.
StoredLetter(id, doc) ==
  [id |-> id, memberId |-> doc.memberId, templateId |-> doc.templateId,
   fileName |-> doc.fileName, blobPath |-> doc.blobPath,
   contentType |-> doc.contentType, tenantId |-> doc.tenantId]

\* a create that removes the uploaded artifact when the write fails
GenCreateCompensating(s, fault) ==
  LET r == slots[s]
      calls == {"db.read", "repo.fetch", "blob.upload", "db.write"} \cup AllUpstream
      blobPath == BlobPath(r.tenantId, r.memberId, r.uuid)
      letterId == Cardinality(ledger) + 1
      record == StoredLetter(letterId,
                  [memberId |-> r.memberId, templateId |-> r.templateId,
                   fileName |-> r.uuid, blobPath |-> blobPath,
                   contentType |-> "docx", tenantId |-> r.tenantId,
                   createdBy |-> r.userId])
  IN
  /\ r.pc = "create"
  /\ IF fault = "db"
       THEN /\ Finish(s, LetterReply(r, 500, "serverError", calls, NoLetter))
            /\ blobs' = {b \in blobs : b.path # blobPath}
            /\ UNCHANGED ledger
     ELSE /\ ledger' = ledger \cup {record}
          /\ UNCHANGED blobs
          /\ Finish(s, LetterReply(r, 201, "success", calls,
                       [letterId |-> letterId, fileName |-> r.uuid,
                        urlPath |-> blobPath,
                        url |-> generateDownloadUrl(blobPath, now),
                        uploadedAt |-> r.uploadedAt, data |-> r.data]))
  /\ UNCHANGED <<templates, files, fields, uuids>>

\* lines 56-75: GeneratedLetter.create resolves, the download URL is signed
\* and the response sent
GenCreate(s, fault) ==
  LET r == slots[s]
      calls == {"db.read", "repo.fetch", "blob.upload", "db.write"} \cup AllUpstream
      blobPath == BlobPath(r.tenantId, r.memberId, r.uuid)
      letterId == Cardinality(ledger) + 1
      record == StoredLetter(letterId,
                  [memberId |-> r.memberId, templateId |-> r.templateId,
                   fileName |-> r.uuid, blobPath |-> blobPath,
                   contentType |-> "docx", tenantId |-> r.tenantId,
                   createdBy |-> r.userId])
  IN
  /\ r.pc = "create"
  /\ IF fault = "db"
       THEN /\ Finish(s, LetterReply(r, 500, "serverError", calls, NoLetter))
            /\ UNCHANGED ledger
     ELSE /\ ledger' = ledger \cup {record}
          /\ Finish(s, LetterReply(r, 201, "success", calls,
                       [letterId |-> letterId, fileName |-> r.uuid,
                        urlPath |-> blobPath,
                        url |-> generateDownloadUrl(blobPath, now),
                        uploadedAt |-> r.uploadedAt, data |-> r.data]))
  /\ UNCHANGED <<templates, files, fields, blobs, uuids>>

----------------------------------------------------------------------------
(* Graph token cache (graphAuth.service.js).  A token is known by when the   *)
(* credential endpoint issued it and the expires_in it came with (0: the     *)
(* response carried none); times are in seconds.                             *)

NoToken == [issuedAt |-> 0, expiresIn |-> 0, present |-> FALSE]

Token(issuedAt, expires_in) ==
  [issuedAt |-> issuedAt, expiresIn |-> expires_in, present |-> TRUE]

DefaultExpiresIn == 3600
MinCacheSeconds == 3000
MaxCacheSeconds == 3300
RefreshMarginSeconds == 300

Min(a, b) == IF a <= b THEN a ELSE b
Max(a, b) == IF a >= b THEN a ELSE b

\* lines 154-161: how long the token just received is kept
CacheDurationSeconds(expires_in) ==
  LET expiresIn == IF expires_in = 0 THEN DefaultExpiresIn ELSE expires_in
      safeCacheSeconds == Min(expiresIn - RefreshMarginSeconds, MaxCacheSeconds)
  IN Max(MinCacheSeconds, safeCacheSeconds)

TokenReply(token, cached, outcome) ==
  [op |-> "getGraphToken", token |-> token, cached |-> cached, outcome |-> outcome]

\* getGraphToken: the cached token while the entry has not lapsed, a new one
\* from the credential endpoint otherwise; answer "error" is the endpoint
\* failing or answering without access_token
getGraphToken(expires_in, answer) ==
  /\ IF cachedToken.present /\ tokenExpiry # 0 /\ now < tokenExpiry
       THEN /\ resp' = TokenReply(cachedToken, TRUE, "ok")
            /\ UNCHANGED <<cachedToken, tokenExpiry>>
     ELSE IF answer = "error"
       THEN /\ resp' = TokenReply(NoToken, FALSE, "error")
            /\ UNCHANGED <<cachedToken, tokenExpiry>>
     ELSE /\ cachedToken' = Token(now, expires_in)
          /\ tokenExpiry' = now + CacheDurationSeconds(expires_in)
          /\ resp' = TokenReply(Token(now, expires_in), FALSE, "ok")
  /\ UNCHANGED <<templates, files, fields, ledger, blobs, uuids, slots, users,
                 deliveries, now, tokenCalls>>

\* a call that is not running
IdleCall == [pc |-> "idle", token |-> NoToken]

\* lines 100-141: the cache check and the environment check, then axios.post
\* is issued
TokenBegin(c, fault) ==
  /\ tokenCalls[c].pc = "idle"
  /\ IF cachedToken.present /\ tokenExpiry # 0 /\ now < tokenExpiry
       THEN /\ resp' = TokenReply(cachedToken, TRUE, "ok")
            /\ UNCHANGED tokenCalls
     ELSE IF fault = "config"
       THEN /\ resp' = TokenReply(NoToken, FALSE, "error")
            /\ UNCHANGED tokenCalls
     ELSE /\ tokenCalls' = [tokenCalls EXCEPT ![c] = [IdleCall EXCEPT !.pc = "post"]]
          /\ UNCHANGED resp
  /\ UNCHANGED <<templates, files, fields, ledger, blobs, uuids, slots, users,
                 deliveries, cachedToken, tokenExpiry, now>>

\* the credential endpoint answers the post of caller c: a token it issues
\* now, or a failure or a body without access_token
TokenAnswer(c, expires_in, answer) ==
  /\ tokenCalls[c].pc = "post"
  /\ tokenCalls' = [tokenCalls EXCEPT ![c] =
       [pc |-> "response",
        token |-> IF answer = "ok" THEN Token(now, expires_in) ELSE NoToken]]
  /\ UNCHANGED <<templates, files, fields, ledger, blobs, uuids, slots, users,
                 deliveries, resp, cachedToken, tokenExpiry, now>>

\* a resume that stores the token and leaves the expiry of the entry it
\* replaces
TokenResumeTokenOnly(c) ==
  LET token == tokenCalls[c].token IN
  /\ tokenCalls[c].pc = "response"
  /\ tokenCalls' = [tokenCalls EXCEPT ![c] = IdleCall]
  /\ IF ~token.present
       THEN /\ resp' = TokenReply(NoToken, FALSE, "error")
            /\ UNCHANGED <<cachedToken, tokenExpiry>>
     ELSE /\ cachedToken' = token
          /\ tokenExpiry' = IF tokenExpiry = 0
                              THEN now + CacheDurationSeconds(token.expiresIn)
                              ELSE tokenExpiry
          /\ resp' = TokenReply(token, FALSE, "ok")
  /\ UNCHANGED <<templates, files, fields, ledger, blobs, uuids, slots, users,
                 deliveries, now>>

\* lines 143-209: the call resumes after the await: it throws on a failure or
\* a body without access_token, otherwise stores token and expiry and returns
TokenResume(c) ==
  LET token == tokenCalls[c].token IN
  /\ tokenCalls[c].pc = "response"
  /\ tokenCalls' = [tokenCalls EXCEPT ![c] = IdleCall]
  /\ IF ~token.present
       THEN /\ resp' = TokenReply(NoToken, FALSE, "error")
            /\ UNCHANGED <<cachedToken, tokenExpiry>>
     ELSE /\ cachedToken' = token
          /\ tokenExpiry' = now + CacheDurationSeconds(token.expiresIn)
          /\ resp' = TokenReply(token, FALSE, "ok")
  /\ UNCHANGED <<templates, files, fields, ledger, blobs, uuids, slots, users,
                 deliveries, now>>

----------------------------------------------------------------------------
(* The user cache (user.crm.listener.js): the handlers of user.crm.created   *)
(* and user.crm.updated, each split at its one await.  The store runs        *)
(* findOneAndUpdate with upsert as a lookup followed by an update of the     *)
(* document found or an insert; whether it enforces one document per         *)
(* (tenantId, userId) is a property of the collection.                       *)

Null == [t |-> "null", v |-> <<>>]

\* a store that keeps what the event carried
KeepValue(x) == x

\* userEmail || null, userFullName || null
OrNull(x) == IF Falsy(x) THEN Null ELSE x

CrmEvent(type, tenantId, userId, userEmail, userFullName) ==
  [type |-> type, tenantId |-> tenantId, userId |-> userId,
   userEmail |-> userEmail, userFullName |-> userFullName]

NoEvent == CrmEvent("", Undefined, Undefined, Undefined, Undefined)

NoDelivery == [pc |-> "idle", event |-> NoEvent, found |-> FALSE]

UserStore(unique) == [unique |-> unique, docs |-> {}]

UserReply(event, outcome) ==
  [op |-> "user.crm", event |-> event, outcome |-> outcome]

Matching(data) ==
  {doc \in users.docs : doc.tenantId = data.tenantId /\ doc.userId = data.userId}

\* lines 7-19 and 51-63: the handler takes the event in slot h, drops it when
\* userId or tenantId is missing, and otherwise issues findOneAndUpdate
HandleCrmUser(h, event) ==
  /\ deliveries[h].pc = "idle"
  /\ IF Falsy(event.userId) \/ Falsy(event.tenantId)
       THEN /\ resp' = UserReply(event, "dropped")
            /\ UNCHANGED deliveries
       ELSE /\ deliveries' = [deliveries EXCEPT ![h] =
                 [pc |-> "find", event |-> event, found |-> FALSE]]
            /\ UNCHANGED resp
  /\ UNCHANGED users
  /\ UNCHANGED <<templates, files, fields, ledger, blobs, uuids, slots>>
  /\ UNCHANGED tokenVars

handleCrmUserCreated(h, data) ==
  HandleCrmUser(h, CrmEvent("user.crm.created.v1", data.tenantId, data.userId,
                            data.userEmail, data.userFullName))

handleCrmUserUpdated(h, data) ==
  HandleCrmUser(h, CrmEvent("user.crm.updated.v1", data.tenantId, data.userId,
                            data.userEmail, data.userFullName))

\* the store looks for a document { tenantId, userId }
UserFind(h) ==
  /\ deliveries[h].pc = "find"
  /\ deliveries' = [deliveries EXCEPT ![h] =
       [@ EXCEPT !.pc = "write", !.found = Matching(deliveries[h].event) # {}]]
  /\ UNCHANGED <<users, resp>>
  /\ UNCHANGED <<templates, files, fields, ledger, blobs, uuids, slots>>
  /\ UNCHANGED tokenVars

\* lines 20-44 and 64-88: the store updates the document it found or inserts
\* one, and the handler resumes; a failed operation is logged and rethrown.
\* An insert of a pair that a concurrent upsert has inserted meanwhile is
\* rejected as a duplicate key where the pair is unique.
UserWrite(h, fault) ==
  LET event == deliveries[h].event
      match == Matching(event)
      doc == CHOOSE d \in match : \A x \in match : d.id <= x.id
      values == [tenantId |-> event.tenantId, userId |-> event.userId,
                 userEmail |-> OrNull(event.userEmail),
                 userFullName |-> OrNull(event.userFullName)]
      stored(id) == [id |-> id] @@ values
  IN
  /\ deliveries[h].pc = "write"
  /\ deliveries' = [deliveries EXCEPT ![h] = NoDelivery]
  /\ IF fault = "db" \/ (~deliveries[h].found /\ match # {} /\ users.unique)
       THEN /\ resp' = UserReply(event, "error")
            /\ UNCHANGED users
     ELSE IF deliveries[h].found
       THEN /\ users' = [users EXCEPT !.docs = (@ \ {doc}) \cup {stored(doc.id)}]
            /\ resp' = UserReply(event, "applied")
     ELSE /\ users' = [users EXCEPT !.docs = @ \cup {stored(Cardinality(@) + 1)}]
          /\ resp' = UserReply(event, "applied")
  /\ UNCHANGED <<templates, files, fields, ledger, blobs, uuids, slots>>
  /\ UNCHANGED tokenVars

----------------------------------------------------------------------------
(* Routing (app.js and the routers): a request reaches its handler through   *)
(* the policy middleware where the route mounts it, directly where not       *)

\* what the router hands to the handler of op: the verdict of the policy
\* middleware where the route mounts it, the request as it came where not
Route(op, caller) ==
  IF RouteAction(op) = ""
  THEN [pass |-> TRUE, status |-> 0, ctx |-> caller.pre, policy |-> NoPolicy]
  ELSE requirePermission("communication", RouteAction(op), caller.pre,
                         caller.token, caller.bypass, caller.eval)

\* the middleware answers the request itself; the handler is not called
Refuse(op, status) ==
  /\ resp' = Blocked(op, status)
  /\ UNCHANGED <<templates, files, fields, ledger, blobs, uuids, slots>>

----------------------------------------------------------------------------
(* Inputs.  A caller is what a request brings: the context attached to it    *)
(* before the router (pre), its bearer token, and what the policy service    *)
(* would answer.  The sources mount no middleware before the template routes *)
(* that attaches a context, so what their handlers see is an input.          *)

Eval(kind, user) == [kind |-> kind, user |-> user]

Caller(pre, token, bypass, eval) ==
  [pre |-> pre, token |-> token, bypass |-> bypass, eval |-> eval]

Ctx(userId, tenantId) == [userId |-> userId, tenantId |-> tenantId]

\* callers of a route behind the policy middleware
PolicyCallers ==
  {Caller(NoCtx, "", FALSE, Eval("deny", NoUser)),
   Caller(NoCtx, "tok", FALSE, Eval("permit", User("u1", "t1"))),
   Caller(NoCtx, "tok", FALSE, Eval("permit", NoUser)),
   Caller(NoCtx, "tok", FALSE, Eval("deny", NoUser)),
   Caller(NoCtx, "tok", FALSE, Eval("error", NoUser))}

\* callers of a route mounted without it: a request as it arrives, carrying
\* no context, and one on which a context was set before the router
DirectCallers ==
  {Caller(NoCtx, "", FALSE, Eval("deny", NoUser)),
   Caller(Ctx("u1", "t1"), "", FALSE, Eval("deny", NoUser))}

Callers(op) == IF RouteAction(op) = "" THEN DirectCallers ELSE PolicyCallers

IdInputs == {Str(IdA), Str(IdB), Str(IdShort)}
StoredIds == {Str(IdA), Str(IdB)}

IdNonHex == [IdM EXCEPT ![ObjectIdLen] = "g"]     \* 24 characters, one not hex
IdLong == IdM \o <<"0">>                          \* 25 hex characters

\* request bodies of POST /api/letters/generate
Body(memberId, templateId) == [memberId |-> memberId, templateId |-> templateId]

LetterBodies ==
  {Body(Str(IdM), Str(IdA)), Body(Str(IdM), Str(IdB)),
   Body(Undefined, Str(IdB)), Body(Str(IdLong), Str(IdA)),
   Body(Str(IdNonHex), Str(IdA)), Body(Str(IdM), Str(IdShort)),
   Body(Str(IdM), NonString), Body(Str(<<>>), Str(IdA))}

\* request bodies of PUT /api/templates/:id
Patch(name, file) == [name |-> name, file |-> file]

DocxFile(pkg) == [pkg |-> pkg, docx |-> TRUE]

TemplatePatches ==
  {Patch(Undefined, NoUploadFile), Patch(Str(NameV2), NoUploadFile),
   Patch(Str(<<" ">>), DocxFile("pkg2"))}

\* upstream outcomes of the profile, subscription and account calls
OutcomeInputs ==
  {<<"2xx", "2xx", "2xx">>, <<"4xx", "2xx", "4xx">>, <<"5xx", "2xx", "2xx">>,
   <<"2xx", "timeout", "2xx">>, <<"2xx", "2xx", "timeout">>,
   <<"4xx", "refused", "2xx">>}

TemplateA ==
  [id |-> IdA, tenantId |-> "t1", name |-> NameV1, tempolateType |-> <<"l">>,
   fileId |-> "fA", placeholders |-> ExtractedPlaceholders("pkg1"),
   createdBy |-> "u1"]

TemplateB ==
  [id |-> IdB, tenantId |-> "t2", name |-> NameV1, tempolateType |-> <<"l">>,
   fileId |-> "fB", placeholders |-> ExtractedPlaceholders("pkg1"),
   createdBy |-> "u1"]

----------------------------------------------------------------------------
(* The service *)

\* the state after start-up, with room for n generateLetter requests in
\* flight and k UUIDs left to mint
\* every store but the user cache
Collections(n, k) ==
  /\ templates = {TemplateA, TemplateB}
  /\ files = [f \in FileIds |-> IF f = "fC" THEN NoFile ELSE "pkg1"]
  /\ fields = {[id |-> IdF1, key |-> <<"k", "1">>]}
  /\ ledger = {}
  /\ blobs = {}
  /\ uuids = 1..k
  /\ slots = [s \in 1..n |-> Idle]
  /\ cachedToken = NoToken
  /\ tokenExpiry = 0
  /\ now = 0
  /\ tokenCalls = [c \in 1..MaxCallers |-> IdleCall]
  /\ deliveries = [h \in 1..MaxPrefetch |-> NoDelivery]

StoreWith(n, k) == Collections(n, k) /\ users = UserStore(TRUE)

InitWith(n, k) == StoreWith(n, k) /\ resp = NoResp

ReqGetTemplates ==
  /\ \E caller \in Callers("getTemplates"), fault \in {"none", "db"} :
       LET v == Route("getTemplates", caller) IN
       IF v.pass THEN getTemplates(v.policy, v.ctx, fault)
       ELSE Refuse("getTemplates", v.status)
  /\ UNCHANGED <<tokenVars, userVars>>

ReqGetTemplate ==
  /\ \E caller \in Callers("getTemplate"), id \in IdInputs,
        fault \in {"none", "repo"} :
       LET v == Route("getTemplate", caller) IN
       IF v.pass THEN getTemplate(v.policy, v.ctx, id, fault)
       ELSE Refuse("getTemplate", v.status)
  /\ UNCHANGED <<tokenVars, userVars>>

ReqUpdateTemplate ==
  /\ \E caller \in Callers("updateTemplate"), id \in StoredIds,
        patch \in TemplatePatches, fault \in {"none", "repo", "db2"} :
       LET v == Route("updateTemplate", caller) IN
       IF v.pass THEN updateTemplate(v.policy, v.ctx, id, patch.name, Undefined,
                                      patch.file, NoPlaceholders, fault)
       ELSE Refuse("updateTemplate", v.status)
  /\ UNCHANGED <<tokenVars, userVars>>

ReqDeleteTemplate ==
  /\ \E caller \in Callers("deleteTemplate"), id \in StoredIds,
        fault \in {"none", "db"} :
       LET v == Route("deleteTemplate", caller) IN
       IF v.pass THEN deleteTemplate(v.policy, v.ctx, id, fault)
       ELSE Refuse("deleteTemplate", v.status)
  /\ UNCHANGED <<tokenVars, userVars>>

ReqExtractPlaceholders ==
  /\ \E caller \in Callers("extractPlaceholders"), id \in StoredIds,
        fault \in {"none", "db", "repo"} :
       LET v == Route("extractPlaceholders", caller) IN
       IF v.pass THEN extractPlaceholders(v.policy, v.ctx, id, fault)
       ELSE Refuse("extractPlaceholders", v.status)
  /\ UNCHANGED <<tokenVars, userVars>>

ReqGenerateLetter ==
  /\ \E caller \in Callers("generateLetter"), body \in LetterBodies :
       LET v == Route("generateLetter", caller) IN
       IF v.pass THEN generateLetter(v.policy, v.ctx, body.memberId, body.templateId)
       ELSE Refuse("generateLetter", v.status)
  /\ UNCHANGED <<tokenVars, userVars>>

StepFindOne ==
  /\ \E s \in DOMAIN slots, fault \in {"none", "db"} : GenFindOne(s, fault)
  /\ UNCHANGED <<tokenVars, userVars>>

StepGetFile ==
  /\ \E s \in DOMAIN slots, fault \in {"none", "repo"} : GenGetFile(s, fault)
  /\ UNCHANGED <<tokenVars, userVars>>

StepCollect ==
  /\ \E s \in DOMAIN slots, env \in EnvConfigs, o \in OutcomeInputs :
       GenCollect(s, env, o)
  /\ UNCHANGED <<tokenVars, userVars>>

StepUpload ==
  /\ \E s \in DOMAIN slots, fault \in {"none", "blob"} : GenUpload(s, fault)
  /\ UNCHANGED <<tokenVars, userVars>>

StepCreate ==
  /\ \E s \in DOMAIN slots, fault \in {"none", "db"} : GenCreate(s, fault)
  /\ UNCHANGED <<tokenVars, userVars>>

\* The template and letter routes, one generateLetter request at a time
Init == InitWith(SerialInFlight, SerialUuid)

Next ==
  \/ ReqGetTemplates
  \/ ReqGetTemplate
  \/ ReqUpdateTemplate
  \/ ReqDeleteTemplate
  \/ ReqExtractPlaceholders
  \/ ReqGenerateLetter
  \/ StepFindOne
  \/ StepGetFile
  \/ StepCollect
  \/ StepUpload
  \/ StepCreate

Spec == Init /\ [][Next]_vars

\* The letter route with generateLetter requests in flight together
InitLetters == InitWith(MaxInFlight, MaxUuid)

NextLetters ==
  \/ ReqGenerateLetter
  \/ StepFindOne
  \/ StepGetFile
  \/ StepCollect
  \/ StepUpload
  \/ StepCreate

SpecLetters == InitLetters /\ [][NextLetters]_vars

----------------------------------------------------------------------------
(* The controllers as exported functions: each handler called on a request  *)
(* context, whatever attached it                                             *)

HandlerCtxs == {Ctx("u1", "t1"), Ctx("", "t1"), Ctx("u1", ""), NoCtx}

CallGetTemplates ==
  /\ \E ctx \in HandlerCtxs : getTemplates(NoPolicy, ctx, "none")
  /\ UNCHANGED <<tokenVars, userVars>>

CallGetTemplate ==
  /\ \E ctx \in HandlerCtxs : getTemplate(NoPolicy, ctx, Str(IdA), "none")
  /\ UNCHANGED <<tokenVars, userVars>>

CallUpdateTemplate ==
  /\ \E ctx \in HandlerCtxs :
       updateTemplate(NoPolicy, ctx, Str(IdA), Str(NameV2), Undefined, NoUploadFile,
                      NoPlaceholders, "none")
  /\ UNCHANGED <<tokenVars, userVars>>

CallDeleteTemplate ==
  /\ \E ctx \in HandlerCtxs : deleteTemplate(NoPolicy, ctx, Str(IdA), "none")
  /\ UNCHANGED <<tokenVars, userVars>>

CallExtractPlaceholders ==
  /\ \E ctx \in HandlerCtxs : extractPlaceholders(NoPolicy, ctx, Str(IdA), "none")
  /\ UNCHANGED <<tokenVars, userVars>>

CallUploadTemplate ==
  /\ \E ctx \in HandlerCtxs :
       uploadTemplate(NoPolicy, ctx, DocxFile("pkg2"), Str(NameV2), Str(<<"l">>),
                      NoPlaceholders, "none")
  /\ UNCHANGED <<tokenVars, userVars>>

CallGetBookmarkFields ==
  /\ \E ctx \in HandlerCtxs : getBookmarkFields(NoPolicy, ctx, "none")
  /\ UNCHANGED <<tokenVars, userVars>>

CallCreateBookmarkField ==
  /\ \E ctx \in HandlerCtxs :
       createBookmarkField(NoPolicy, ctx, Str(<<"k", "2">>), "none")
  /\ UNCHANGED <<tokenVars, userVars>>

CallUpdateBookmarkField ==
  /\ \E ctx \in HandlerCtxs :
       updateBookmarkField(NoPolicy, ctx, Str(IdF1), Str(<<"k", "2">>), "none")
  /\ UNCHANGED <<tokenVars, userVars>>

CallDeleteBookmarkField ==
  /\ \E ctx \in HandlerCtxs : deleteBookmarkField(NoPolicy, ctx, Str(IdF2), "none")
  /\ UNCHANGED <<tokenVars, userVars>>

CallGenerateLetter ==
  /\ \E ctx \in HandlerCtxs :
       generateLetter(NoPolicy, ctx, Str(IdM), Str(IdA))
  /\ UNCHANGED <<tokenVars, userVars>>

NextHandlers ==
  \/ CallGetTemplates
  \/ CallGetTemplate
  \/ CallUpdateTemplate
  \/ CallDeleteTemplate
  \/ CallExtractPlaceholders
  \/ CallUploadTemplate
  \/ CallGetBookmarkFields
  \/ CallCreateBookmarkField
  \/ CallUpdateBookmarkField
  \/ CallDeleteBookmarkField
  \/ CallGenerateLetter
  \/ StepFindOne
  \/ StepGetFile
  \/ StepCollect
  \/ StepUpload
  \/ StepCreate

SpecHandlers == Init /\ [][NextHandlers]_vars

----------------------------------------------------------------------------
(* The ledger next to everything that writes to the database: letters       *)
(* generated one after another while templates and catalog fields change    *)

InitLedger == InitWith(SerialInFlight, MaxUuid)

NextLedger ==
  \/ CallUpdateTemplate
  \/ CallDeleteTemplate
  \/ CallUploadTemplate
  \/ CallCreateBookmarkField
  \/ CallDeleteBookmarkField
  \/ CallGenerateLetter
  \/ StepFindOne
  \/ StepGetFile
  \/ StepCollect
  \/ StepUpload
  \/ StepCreate

SpecLedger == InitLedger /\ [][NextLedger]_vars

----------------------------------------------------------------------------
(* validateUrl as a function of the URL and the allow-list *)

HostLocalhostUpper == <<"L", "O", "C", "A", "L", "H", "O", "S", "T">>
HostTrailingDot == HostEvil \o <<".">>
HostPadded == <<" ">> \o HostProfile        \* an entry of "a, profile-service"

HostInputs ==
  {HostProfile, HostSubscription, HostAccount, HostLocalhost, HostLocalhostUpper,
   HostLoopback, HostAny, HostTen, HostOneSeven, HostOneSevenTop, HostOneNine,
   HostEvil, HostSub, HostSubUpper, HostPublic, HostNearPrivate, HostTrailingDot,
   <<>>}

UrlInputs ==
  {Url("http:", host) : host \in HostInputs}
    \cup {Url("https:", HostProfile), Url("https:", HostTen), Url("ftp:", HostProfile),
          Url("", HostProfile)}

\* what ALLOWED_SERVICE_HOSTS?.split(",") can put before the three defaults
AllowedEnvInputs ==
  {<<>>, <<<<>>>>, <<HostTen>>, <<HostLocalhost, HostLoopback>>, <<HostPadded>>,
   <<HostSubUpper>>, <<HostPublic, HostOneNine>>}

AllowListInputs ==
  {<<>>} \cup {AllowedHosts([EnvDefault EXCEPT !.allowed = a]) : a \in AllowedEnvInputs}
         \cup {<<h>> : h \in {HostLocalhost, HostLoopback, HostAny, HostTen,
                              HostOneSeven, HostOneSevenTop, HostOneNine,
                              HostProfile}}

UrlReply(url, allowedHosts, returned) ==
  [op |-> "validateUrl", url |-> url, allowedHosts |-> allowedHosts,
   hostname |-> ParseUrl(url).hostname, returned |-> returned]

GuardUrl ==
  /\ \E url \in UrlInputs, allowedHosts \in AllowListInputs :
       /\ resp' = UrlReply(url, allowedHosts, validateUrl(url, allowedHosts))
       /\ UNCHANGED <<templates, files, fields, ledger, blobs, uuids, slots>>
  /\ UNCHANGED <<tokenVars, userVars>>

NextUrl == GuardUrl

SpecUrl == Init /\ [][NextUrl]_vars

----------------------------------------------------------------------------
(* The Graph token cache over time *)

\* expires_in values of the credential endpoint's response; 0: none given
ExpiresInInputs == {0, 600, 1800, 3000, 3599, 3600, 5400}

\* how far the clock moves between two calls
TickSeconds == {300, 1500}

CallGetGraphToken ==
  \E expires_in \in ExpiresInInputs, answer \in {"ok", "error"} :
    getGraphToken(expires_in, answer)

Tick ==
  /\ \E d \in TickSeconds : now + d <= MaxClock /\ now' = now + d
  /\ UNCHANGED <<templates, files, fields, ledger, blobs, uuids, slots, users,
                 deliveries, resp, cachedToken, tokenExpiry, tokenCalls>>

NextToken == CallGetGraphToken \/ Tick

SpecToken == Init /\ [][NextToken]_vars

\* getGraphToken called by several callers whose awaits interleave
RaceExpiresIn == {0, 1800, 5400}

CallTokenBegin ==
  \E c \in DOMAIN tokenCalls, fault \in {"none", "config"} : TokenBegin(c, fault)

EndpointAnswers ==
  \E c \in DOMAIN tokenCalls, expires_in \in RaceExpiresIn,
     answer \in {"ok", "error"} : TokenAnswer(c, expires_in, answer)

CallTokenResume == \E c \in DOMAIN tokenCalls : TokenResume(c)

\* time passes while calls are in flight
TickRace ==
  /\ now + ClockStep <= MaxClock
  /\ now' = now + ClockStep
  /\ UNCHANGED <<templates, files, fields, ledger, blobs, uuids, slots, users,
                 deliveries, resp, cachedToken, tokenExpiry, tokenCalls>>

NextTokenRace == CallTokenBegin \/ EndpointAnswers \/ CallTokenResume \/ TickRace

SpecTokenRace == Init /\ [][NextTokenRace]_vars

----------------------------------------------------------------------------
(* One letter generated while time passes between the awaits                 *)

SignedGenerateLetter ==
  /\ generateLetter(NoPolicy, Ctx("u1", "t1"), Str(IdM), Str(IdA))
  /\ UNCHANGED <<tokenVars, userVars>>

NextSigned ==
  \/ SignedGenerateLetter
  \/ StepFindOne
  \/ StepGetFile
  \/ StepCollect
  \/ StepUpload
  \/ StepCreate
  \/ Tick

SpecSigned == InitLedger /\ [][NextSigned]_vars

----------------------------------------------------------------------------
(* The five operations that look a template up, called by tenant t1 for its *)
(* own template, the template of tenant t2 and one that no tenant has        *)

LookupCtxs == {Ctx("u1", "t1")}
LookupIds == {Str(IdA), Str(IdB), Str(IdC)}

AskGetTemplate ==
  /\ \E ctx \in LookupCtxs, id \in LookupIds, fault \in {"none", "db"} :
       getTemplate(NoPolicy, ctx, id, fault)
  /\ UNCHANGED <<tokenVars, userVars>>

AskUpdateTemplate ==
  /\ \E ctx \in LookupCtxs, id \in LookupIds, fault \in {"none", "db"} :
       updateTemplate(NoPolicy, ctx, id, Str(NameV2), Undefined, NoUploadFile,
                      NoPlaceholders, fault)
  /\ UNCHANGED <<tokenVars, userVars>>

AskDeleteTemplate ==
  /\ \E ctx \in LookupCtxs, id \in LookupIds, fault \in {"none", "db"} :
       deleteTemplate(NoPolicy, ctx, id, fault)
  /\ UNCHANGED <<tokenVars, userVars>>

AskExtractPlaceholders ==
  /\ \E ctx \in LookupCtxs, id \in LookupIds, fault \in {"none", "db"} :
       extractPlaceholders(NoPolicy, ctx, id, fault)
  /\ UNCHANGED <<tokenVars, userVars>>

AskGenerateLetter ==
  /\ \E ctx \in LookupCtxs, id \in LookupIds :
       generateLetter(NoPolicy, ctx, Str(IdM), id)
  /\ UNCHANGED <<tokenVars, userVars>>

NextLookup ==
  \/ AskGetTemplate
  \/ AskUpdateTemplate
  \/ AskDeleteTemplate
  \/ AskExtractPlaceholders
  \/ AskGenerateLetter
  \/ StepFindOne
  \/ StepGetFile
  \/ StepCollect
  \/ StepUpload
  \/ StepCreate

SpecLookup == Init /\ [][NextLookup]_vars

----------------------------------------------------------------------------
(* A template's document over its life: tenant t1 uploads a template,        *)
(* replaces files and extracts placeholders, with each kind of package and   *)
(* with and without placeholders in the request body                         *)

\* req.body.placeholders after parsing and filtering
Given(list) == [given |-> TRUE, list |-> list]

BodyPlaceholders == {NoPlaceholders, Given(<<KeyForename>>), Given(<<>>)}

DocIds == {Str(IdA), Str(IdC)}

DocUpload ==
  /\ \E pkg \in Packages, ph \in BodyPlaceholders, fault \in {"none", "db2"} :
       uploadTemplate(NoPolicy, Ctx("u1", "t1"), DocxFile(pkg), Str(NameV2),
                      Str(<<"l">>), ph, fault)
  /\ UNCHANGED <<tokenVars, userVars>>

DocUpdate ==
  /\ \E id \in DocIds, pkg \in Packages, ph \in BodyPlaceholders :
       updateTemplate(NoPolicy, Ctx("u1", "t1"), id, Undefined, Undefined,
                      DocxFile(pkg), ph, "none")
  /\ UNCHANGED <<tokenVars, userVars>>

DocRename ==
  /\ \E id \in DocIds :
       updateTemplate(NoPolicy, Ctx("u1", "t1"), id, Str(NameV2), Undefined,
                      NoUploadFile, NoPlaceholders, "none")
  /\ UNCHANGED <<tokenVars, userVars>>

DocExtract ==
  /\ \E id \in DocIds, fault \in {"none", "repo"} :
       extractPlaceholders(NoPolicy, Ctx("u1", "t1"), id, fault)
  /\ UNCHANGED <<tokenVars, userVars>>

NextDocs == DocUpload \/ DocUpdate \/ DocRename \/ DocExtract

SpecDocs == Init /\ [][NextDocs]_vars

----------------------------------------------------------------------------
(* The placeholder scan as a function of the document text, applied twice   *)
(* to each text                                                              *)

\* what a text is put together from: markers, a padded one, empty ones, plain
\* characters and stray braces
TextParts ==
  {Marker(<<"a">>), Marker(<<"b">>), Marker(<<" ", "a", " ">>), Marker(<<" ">>),
   Marker(<<>>), <<"x">>, <<" ">>, <<"{">>, <<"}">>, <<"{", "{", "a">>}

RECURSIVE Texts(_)
Texts(n) ==
  IF n = 0 THEN {<<>>}
  ELSE LET shorter == Texts(n - 1) IN
       shorter \cup {t \o p : t \in shorter, p \in TextParts}

XmlInputs == Texts(MaxParts)

ScanReply(text, runs, first, second) ==
  [op |-> "scanPlaceholders", text |-> text, runs |-> runs,
   first |-> first, second |-> second]

InitScan ==
  /\ StoreWith(SerialInFlight, SerialUuid)
  /\ \E text \in XmlInputs : resp = ScanReply(text, 0, <<>>, <<>>)

ScanFirst ==
  /\ resp.runs = 0
  /\ resp' = [resp EXCEPT !.runs = 1, !.first = ScanPlaceholders(resp.text)]
  /\ UNCHANGED <<templates, files, fields, ledger, blobs, uuids, slots>>
  /\ UNCHANGED <<tokenVars, userVars>>

ScanAgain ==
  /\ resp.runs = 1
  /\ resp' = [resp EXCEPT !.runs = 2, !.second = ScanPlaceholders(resp.text)]
  /\ UNCHANGED <<templates, files, fields, ledger, blobs, uuids, slots>>
  /\ UNCHANGED <<tokenVars, userVars>>

NextScan == ScanFirst \/ ScanAgain

SpecScan == InitScan /\ [][NextScan]_vars

----------------------------------------------------------------------------
(* The merge as a function of the document and the upstream answers          *)

\* response bodies of the profile, subscription and account services; a 4xx
\* body carries none of the fields
ProfileBodies == {Profile("Ann", "M-123"), Profile("Bob", "M-456"), Profile(Absent, Absent)}
SubscriptionBodies ==
  {[status |-> "active", expiryDate |-> "2027-01-01"],
   [status |-> Absent, expiryDate |-> Absent]}
AccountBodies == {[balance |-> "0"]}

\* documents that mark one name: a catalog key or a key of the data map
MergeTexts == {<<"x">> \o Marker(k) : k \in FieldCatalogKeys \cup MemberDataKeys}

MergeReply(text, profile, subscription, account, merged, rendered) ==
  [op |-> "mergeTemplate", text |-> text, profile |-> profile,
   subscription |-> subscription, account |-> account, merged |-> merged,
   rendered |-> rendered]

InitMerge ==
  /\ StoreWith(SerialInFlight, SerialUuid)
  /\ \E text \in MergeTexts, profile \in ProfileBodies,
        subscription \in SubscriptionBodies, account \in AccountBodies :
       resp = MergeReply(text, profile, subscription, account, FALSE, {})

\* letter.controller.js 44-45: collectMemberData returns, mergeTemplate renders
MergeLetter ==
  /\ resp.op = "mergeTemplate"
  /\ ~resp.merged
  /\ resp' = [resp EXCEPT
       !.merged = TRUE,
       !.rendered = mergeTemplate(resp.text,
                    MemberData(resp.profile, resp.subscription, resp.account))]
  /\ UNCHANGED <<templates, files, fields, ledger, blobs, uuids, slots>>
  /\ UNCHANGED <<tokenVars, userVars>>

NextMerge == MergeLetter

SpecMerge == InitMerge /\ [][NextMerge]_vars

----------------------------------------------------------------------------
(* collectMemberData as a function of the member id, the environment and    *)
(* what the three upstream services answer                                   *)

MemberIdInputs == {IdM, <<"4", "2">>}

CollectReply(memberId, env, outcomes, returned, out, sent, requested) ==
  [op |-> "collectMemberData", memberId |-> memberId, env |-> env,
   outcomes |-> outcomes, returned |-> returned, out |-> out, sent |-> sent,
   requested |-> requested]

InitCollect ==
  /\ StoreWith(SerialInFlight, SerialUuid)
  /\ \E memberId \in MemberIdInputs, env \in GuardedEnvs, o \in OutcomeInputs :
       resp = CollectReply(memberId, env, o, FALSE, "", {}, {})

Collect ==
  /\ resp.op = "collectMemberData"
  /\ ~resp.returned
  /\ LET c == collectMemberData(resp.memberId, resp.env, resp.outcomes) IN
     resp' = [resp EXCEPT
       !.returned = TRUE,
       !.out = c.out,
       !.sent = c.sent,
       !.requested = {RequestedHost(resp.env, call) : call \in c.sent}]
  /\ UNCHANGED <<templates, files, fields, ledger, blobs, uuids, slots>>
  /\ UNCHANGED <<tokenVars, userVars>>

NextCollect == Collect

SpecCollect == InitCollect /\ [][NextCollect]_vars

----------------------------------------------------------------------------
(* The user.crm consumer: events delivered in any order, any number of      *)
(* times, handled together up to the prefetch                                *)

TenantT1 == Str(<<"t", "1">>)
UserU1 == Str(<<"u", "1">>)
UserU2 == Str(<<"u", "2">>)
EmailA == Str(<<"a", "@", "x">>)
EmailB == Str(<<"b", "@", "x">>)
NameAnn == Str(<<"A", "n", "n">>)

\* the data of the events: two contents for user u1, one for user u2, and
\* events without userId or without tenantId
CrmDataInputs ==
  {[tenantId |-> TenantT1, userId |-> UserU1, userEmail |-> EmailA,
    userFullName |-> NameAnn],
   [tenantId |-> TenantT1, userId |-> UserU1, userEmail |-> Str(<<>>),
    userFullName |-> Undefined],
   [tenantId |-> TenantT1, userId |-> UserU2, userEmail |-> EmailB,
    userFullName |-> NameAnn],
   [tenantId |-> TenantT1, userId |-> Undefined, userEmail |-> EmailA,
    userFullName |-> NameAnn],
   [tenantId |-> Str(<<>>), userId |-> UserU1, userEmail |-> EmailA,
    userFullName |-> NameAnn]}

InitUsers ==
  /\ Collections(SerialInFlight, SerialUuid)
  /\ \E unique \in BOOLEAN : users = UserStore(unique)
  /\ resp = NoResp

UserCreatedDelivered ==
  \E h \in DOMAIN deliveries, data \in CrmDataInputs : handleCrmUserCreated(h, data)

UserUpdatedDelivered ==
  \E h \in DOMAIN deliveries, data \in CrmDataInputs : handleCrmUserUpdated(h, data)

StoreFinds == \E h \in DOMAIN deliveries : UserFind(h)

StoreWrites == \E h \in DOMAIN deliveries, fault \in {"none", "db"} : UserWrite(h, fault)

NextUsers == UserCreatedDelivered \/ UserUpdatedDelivered \/ StoreFinds \/ StoreWrites

SpecUsers == InitUsers /\ [][NextUsers]_vars

----------------------------------------------------------------------------
(* errorHandler (errorHandler.js) as a function of the error passed to       *)
(* next() and of process.env.NODE_ENV                                        *)

GenericMessage == "Internal server error"
ConflictStatus == 409

NoDetails == [originalError |-> "", stack |-> FALSE]

\* an environment counts as development unless it is production
IsNotProduction(nodeEnv) == nodeEnv # "production"

\* process.env.NODE_ENV === "development"
IsDevelopment(nodeEnv) == nodeEnv = "development"

ErrorBody(status, bodyStatus, message, details) ==
  [status |-> status, bodyStatus |-> bodyStatus, message |-> message,
   details |-> details]

\* the response errorHandler sends for err; err.kind is what the handler
\* tells errors apart by (instanceof AppError, err.name, err.code)
errorHandler(err, nodeEnv) ==
  IF err.kind = "AppError"
    THEN ErrorBody(err.status, "fail", err.message, NoDetails)
  ELSE IF err.kind = "ValidationError"
    THEN ErrorBody(BadRequestStatus, "fail", "Validation failed", NoDetails)
  ELSE IF err.kind = "duplicateKey"
    THEN ErrorBody(ConflictStatus, "fail", "Duplicate entry", NoDetails)
  ELSE IF err.kind = "JsonWebTokenError"
    THEN ErrorBody(BadRequestStatus, "fail", "Invalid token", NoDetails)
  ELSE IF err.kind = "TokenExpiredError"
    THEN ErrorBody(BadRequestStatus, "fail", "Token expired", NoDetails)
  ELSE LET isDevelopment == IsDevelopment(nodeEnv)
           message == IF isDevelopment /\ err.message # "" THEN err.message
                      ELSE GenericMessage
       IN ErrorBody(500, "error", message,
                    IF isDevelopment
                    THEN [originalError |-> err.message, stack |-> TRUE]
                    ELSE NoDetails)

ErrorKinds ==
  {"AppError", "ValidationError", "duplicateKey", "JsonWebTokenError",
   "TokenExpiredError", "Error"}

\* messages of repository, merge and publish failures; "": an error without one
ErrorMessages ==
  {"", "connect ECONNREFUSED 10.0.0.5:27017", "Multi error", "Blob upload failed"}

\* err.status: 0 where the error has none
ErrorStatuses == {0, 400, 503}

\* NODE_ENV; "": not set
NodeEnvs == {"production", "development", "staging", "test", ""}

ErrorReply(err, nodeEnv, handled, body) ==
  [op |-> "errorHandler", err |-> err, nodeEnv |-> nodeEnv, handled |-> handled,
   body |-> body]

InitErrors ==
  /\ StoreWith(SerialInFlight, SerialUuid)
  /\ \E kind \in ErrorKinds, message \in ErrorMessages, status \in ErrorStatuses,
        nodeEnv \in NodeEnvs :
       resp = ErrorReply([kind |-> kind, message |-> message, status |-> status],
                         nodeEnv, FALSE, ErrorBody(0, "", "", NoDetails))

HandleError ==
  /\ resp.op = "errorHandler"
  /\ ~resp.handled
  /\ resp' = [resp EXCEPT !.handled = TRUE,
                          !.body = errorHandler(resp.err, resp.nodeEnv)]
  /\ UNCHANGED <<templates, files, fields, ledger, blobs, uuids, slots>>
  /\ UNCHANGED <<tokenVars, userVars>>

NextErrors == HandleError

SpecErrors == InitErrors /\ [][NextErrors]_vars

----------------------------------------------------------------------------
(* Properties *)

IsolatedOps ==
  {"getTemplate", "updateTemplate", "deleteTemplate", "extractPlaceholders",
   "generateLetter"}

NotFoundKinds == {"notFound", "notFoundRecord"}

LookupCalls == {"db.read", "db.write"}

\* response r answers a request that addressed template d from another tenant
Foreign(r, d) ==
  /\ r.invoked
  /\ r.op \in IsolatedOps
  /\ r.id.t = "string"
  /\ d.id = CastObjectId(r.id.v)
  /\ d.tenantId # r.tenantId

\* what the answer to a cross-tenant request may be: nothing of the template,
\* no call beyond the tenant-scoped lookup, and not-found unless the request
\* was turned down before the lookup or the lookup itself failed
ForeignAnswer(r) ==
  /\ r.kind # "success"
  /\ r.data = {}
  /\ r.letter = NoLetter
  /\ r.calls \subseteq LookupCalls
  /\ \/ r.kind \in NotFoundKinds
     \/ r.calls = {}
     \/ r.status = 500

\* C1: tenant isolation of templates.  A getTemplate, updateTemplate,
\* deleteTemplate, extractPlaceholders or generateLetter request whose caller
\* tenant differs from the tenant of the template it addresses, once accepted
\* (caller identity present, identifiers well formed) and once its lookup is
\* answered, ends in the not-found outcome; in every case it returns no field
\* of the template and makes no call beyond the lookup; and a step changes a
\* template record or its stored file only when it answers a request of the
\* template's own tenant.
C1_TenantIsolation ==
  [][\A d \in templates :
       /\ Foreign(resp', d) => ForeignAnswer(resp')
       /\ (d \notin templates' \/ files'[d.fileId] # files[d.fileId])
            => (resp'.invoked /\ resp'.tenantId = d.tenantId
                /\ resp'.id = Str(d.id))]_vars

\* C1 witness: tenant t1 asked to update the template of tenant t2, which is
\* still stored as it was, and was told there is no such record
C1_Witness ==
  /\ resp.op = "updateTemplate"
  /\ resp.tenantId = "t1"
  /\ resp.id = Str(IdB)
  /\ resp.kind = "notFoundRecord"
  /\ TemplateB \in templates
  /\ files["fB"] = "pkg1"

\* C6: a handler runs only after the policy middleware received a token and
\* a PERMIT for resource "communication" and attached userId and tenantId:
\* every response a handler produced, and every generateLetter request in
\* flight, carries the middleware's permit.
C6_HandlerOnlyAfterPermit ==
  /\ resp.invoked =>
       /\ resp.policy.mode = "permit"
       /\ resp.policy.resource = "communication"
       /\ resp.userId # "" /\ resp.tenantId # ""
  /\ \A s \in DOMAIN slots :
       slots[s].pc # "idle" => slots[s].policy.mode = "permit"

\* the path under which the request in slot s stores its artifact
PathOf(s) == BlobPath(slots[s].tenantId, slots[s].memberId, slots[s].uuid)

\* C2: ledger entries match request outcomes.  A step in which a generateLetter
\* request ends with the success response adds exactly one ledger entry, the
\* one the response names; every other step (a request ending with a failure
\* response, a request turned down at once, a request moving on) leaves the
\* ledger as it was; no entry is ever removed or rewritten.
C2_LedgerMatchesOutcome ==
  [][LET ended == {s \in DOMAIN slots :
                     slots[s].pc # "idle" /\ slots'[s].pc = "idle"}
         added == ledger' \ ledger
     IN /\ ledger \subseteq ledger'
        /\ Cardinality(ended) <= 1
        /\ ended # {} => (resp'.invoked /\ resp'.op = "generateLetter")
        /\ IF ended # {} /\ resp'.kind = "success"
             THEN /\ Cardinality(added) = 1
                  /\ resp'.status = 201
                  /\ \A e \in added :
                       /\ e.id = resp'.letter.letterId
                       /\ e.blobPath = resp'.letter.urlPath
                       /\ Str(e.memberId) = resp'.memberId
                       /\ Str(e.templateId) = resp'.id
                       /\ e.tenantId = resp'.tenantId
             ELSE added = {}]_vars

\* C2 witness: two requests have ended, one failing at the ledger write after
\* its upload and one succeeding; the ledger holds the one entry of the latter
C2_Witness ==
  /\ resp.op = "generateLetter"
  /\ resp.kind = "success"
  /\ \A s \in DOMAIN slots : slots[s].pc = "idle"
  /\ Cardinality(blobs) = 2
  /\ Cardinality(ledger) = 1
  /\ \A e \in ledger : e.id = resp.letter.letterId

\* C3: every ledger entry's blobPath names an artifact whose upload completed
\* before the entry was written.  Each entry's path is a stored artifact; a
\* request about to write its entry has its artifact stored already; and a
\* request whose upload has not completed has no entry under its path.
C3_LedgerNamesUploadedArtifact ==
  /\ \A e \in ledger : \E b \in blobs : b.path = e.blobPath
  /\ \A s \in DOMAIN slots :
       /\ slots[s].pc = "create" => \E b \in blobs : b.path = PathOf(s)
       /\ slots[s].pc = "upload" =>
            /\ \A e \in ledger : e.blobPath # PathOf(s)
            /\ \A b \in blobs : b.path # PathOf(s)

\* C3 witness: a request's upload failed after an earlier request had
\* succeeded; the ledger holds the earlier entry only, and one artifact
C3_Witness ==
  /\ resp.op = "generateLetter"
  /\ resp.status = 500
  /\ "blob.upload" \in resp.calls
  /\ "db.write" \notin resp.calls
  /\ \A s \in DOMAIN slots : slots[s].pc = "idle"
  /\ Cardinality(ledger) = 1
  /\ Cardinality(blobs) = 1

HexDigits ==
  {"0", "1", "2", "3", "4", "5", "6", "7", "8", "9"}
    \cup {"a", "b", "c", "d", "e", "f"} \cup {"A", "B", "C", "D", "E", "F"}

\* x is a string of exactly 24 hexadecimal characters
IsHex24(x) ==
  /\ x.t = "string"
  /\ Len(x.v) = 24
  /\ \A i \in DOMAIN x.v : x.v[i] \in HexDigits

\* C4: a generateLetter request that reached the handler's identifier checks
\* (its context carries userId and tenantId) and whose memberId or templateId
\* is a string that is not exactly 24 hexadecimal characters, the empty string
\* included, is answered 400 with no template
\* query, repository fetch, upstream call, upload or ledger write made; no
\* request past that check carries such an identifier; and validateObjectId
\* accepts a value exactly when it is a string of 24 hexadecimal characters.
C4_InvalidIdRejected ==
  /\ \A body \in LetterBodies : \A x \in {body.memberId, body.templateId} :
       validateObjectId(x) <=> IsHex24(x)
  /\ (/\ resp.invoked
      /\ resp.op = "generateLetter"
      /\ resp.userId # "" /\ resp.tenantId # ""
      /\ \/ resp.memberId.t = "string" /\ ~IsHex24(resp.memberId)
         \/ resp.id.t = "string" /\ ~IsHex24(resp.id))
       => /\ resp.status = 400
          /\ resp.calls = {}
          /\ resp.letter = NoLetter
  /\ \A s \in DOMAIN slots :
       slots[s].pc # "idle" =>
         IsHex24(Str(slots[s].memberId)) /\ IsHex24(Str(slots[s].templateId))

\* C4 witness: a request with a 24-character memberId whose last character is
\* not hexadecimal was answered 400 while an accepted request is in flight
C4_Witness ==
  /\ resp.op = "generateLetter"
  /\ resp.memberId = Str(IdNonHex)
  /\ resp.status = 400
  /\ resp.calls = {}
  /\ \E s \in DOMAIN slots : slots[s].pc = "findOne"

AllResolve == <<"2xx", "2xx", "2xx">>

\* the request in slot s can take its next step without any other request
\* moving (the path is minted as long as the UUID pool has a value left)
CanStep(s) ==
  CASE slots[s].pc = "findOne" -> ENABLED GenFindOne(s, "none")
    [] slots[s].pc = "getFile" -> ENABLED GenGetFile(s, "none")
    [] slots[s].pc = "collect" ->
         uuids # {} => ENABLED GenCollect(s, EnvDefault, AllResolve)
    [] slots[s].pc = "upload" -> ENABLED GenUpload(s, "none")
    [] slots[s].pc = "create" -> ENABLED GenCreate(s, "none")
    [] OTHER -> TRUE

\* slots that have been given a path
Pathed == {s \in DOMAIN slots : slots[s].pc \in {"upload", "create"}}

\* C9: generateLetter requests, the same (memberId, templateId, tenant)
\* included, run one after the other or interleaved, never share anything:
\* ledger entries differ pairwise in id and in blobPath, stored artifacts
\* differ pairwise in path, requests in flight hold pairwise different paths
\* that no ledger entry names and, until their own upload, no artifact
\* occupies, and every request in flight can take its next step whatever the
\* other request is doing.
C9_GenerationsIndependent ==
  /\ \A e1, e2 \in ledger :
       (e1.id = e2.id \/ e1.blobPath = e2.blobPath) => e1 = e2
  /\ \A b1, b2 \in blobs : b1.path = b2.path => b1 = b2
  /\ \A s1, s2 \in Pathed : PathOf(s1) = PathOf(s2) => s1 = s2
  /\ \A s \in Pathed :
       /\ \A e \in ledger : e.blobPath # PathOf(s)
       /\ slots[s].pc = "upload" => \A b \in blobs : b.path # PathOf(s)
  /\ \A s \in DOMAIN slots : CanStep(s)

\* C9 witness: two requests for the same member, template and tenant have
\* both succeeded, leaving two ledger entries and two artifacts
C9_Witness ==
  /\ \A s \in DOMAIN slots : slots[s].pc = "idle"
  /\ Cardinality(blobs) = 2
  /\ \E e1, e2 \in ledger :
       /\ e1 # e2
       /\ e1.memberId = e2.memberId
       /\ e1.templateId = e2.templateId
       /\ e1.tenantId = e2.tenantId
       /\ e1.blobPath # e2.blobPath

\* C10: a step of collectMemberData in which the profile call resolved and
\* the subscription call timed out ends the request with a 5xx response that
\* records no account call, with no artifact stored, no ledger entry written
\* and no path minted.
C10_SubscriptionTimeoutFails ==
  [][\A s \in DOMAIN slots : \A env \in EnvConfigs : \A o \in OutcomeInputs :
       (/\ UpstreamResolves(o[1])
        /\ o[2] = "timeout"
        /\ UrlGuardVerdict[env]
        /\ GenCollect(s, env, o))
         => /\ resp'.op = "generateLetter"
            /\ resp'.status >= 500
            /\ resp'.kind = "serverError"
            /\ "upstream.subscription" \in resp'.calls
            /\ "upstream.account" \notin resp'.calls
            /\ "blob.upload" \notin resp'.calls
            /\ "db.write" \notin resp'.calls
            /\ blobs' = blobs
            /\ ledger' = ledger
            /\ uuids' = uuids
            /\ slots'[s] = Idle]_vars

\* C10 witness: the last response is the failure of a request whose
\* subscription call was sent and whose account call was not
C10_Witness ==
  /\ resp.op = "generateLetter"
  /\ resp.status = 500
  /\ resp.calls = {"db.read", "repo.fetch", "upstream.profile",
                   "upstream.subscription"}
  /\ blobs = {}
  /\ ledger = {}

DecimalDigits == {"0", "1", "2", "3", "4", "5", "6", "7", "8", "9"}

DigitValue(c) ==
  CASE c = "0" -> 0 [] c = "1" -> 1 [] c = "2" -> 2 [] c = "3" -> 3
    [] c = "4" -> 4 [] c = "5" -> 5 [] c = "6" -> 6 [] c = "7" -> 7
    [] c = "8" -> 8 [] OTHER -> 9

\* the labels of a host name, split at the dots
RECURSIVE Labels(_)
Labels(h) ==
  IF h = <<>> THEN <<<<>>>>
  ELSE LET rest == Labels(Tail(h)) IN
       IF Head(h) = "." THEN <<<<>>>> \o rest
       ELSE <<<<Head(h)>> \o Head(rest)>> \o Tail(rest)

RECURSIVE Decimal(_)
Decimal(l) ==
  IF l = <<>> THEN 0
  ELSE 10 * Decimal(SubSeq(l, 1, Len(l) - 1)) + DigitValue(l[Len(l)])

IsOctet(l) ==
  /\ Len(l) \in 1..3
  /\ \A i \in DOMAIN l : l[i] \in DecimalDigits
  /\ Decimal(l) <= 255

\* h is a dotted-decimal address inside 10.0.0.0/8, 172.16.0.0/12 or
\* 192.168.0.0/16
InPrivateRange(h) ==
  LET l == Labels(h) IN
  /\ Len(l) = 4
  /\ \A i \in 1..4 : IsOctet(l[i])
  /\ \/ Decimal(l[1]) = 10
     \/ Decimal(l[1]) = 172 /\ Decimal(l[2]) \in 16..31
     \/ Decimal(l[1]) = 192 /\ Decimal(l[2]) = 168

\* C7: validateUrl rejects every URL whose hostname is localhost, 127.0.0.1 or
\* 0.0.0.0 or an address in 10.0.0.0/8, 172.16.0.0/12 or 192.168.0.0/16,
\* whatever the allow-list: empty, the one collectMemberData builds, or one
\* that lists that very hostname.
C7_PrivateHostsRejected ==
  (/\ resp.op = "validateUrl"
   /\ \/ resp.hostname \in {HostLocalhost, HostLoopback, HostAny}
      \/ InPrivateRange(resp.hostname))
    => ~resp.returned

\* C7 witness: http://10.0.0.5 was checked against an allow-list that
\* consists of 10.0.0.5 and was rejected
C7_Witness ==
  /\ resp.op = "validateUrl"
  /\ resp.url = Url("http:", HostTen)
  /\ resp.allowedHosts = <<HostTen>>
  /\ ~resp.returned

\* h equals e or ends with "." followed by e, letter case aside
MatchesEntry(h, e) ==
  LET lh == [i \in DOMAIN h |-> ToLowerChar(h[i])]
      le == [i \in DOMAIN e |-> ToLowerChar(e[i])]
  IN \/ lh = le
     \/ \E k \in 0..Len(lh) : lh = SubSeq(lh, 1, k) \o <<".">> \o le

\* C8: with a non-empty allow-list validateUrl returns a URL only if its
\* hostname equals an entry or ends with "." followed by an entry, letter case
\* aside; evilprofile-service.example.com, which only contains the allowed
\* profile-service, is rejected under every allow-list none of whose entries
\* it matches in that way.
C8_AllowListExactOrSuffix ==
  resp.op = "validateUrl" =>
    /\ (resp.returned /\ Len(resp.allowedHosts) > 0)
         => \E i \in DOMAIN resp.allowedHosts :
              MatchesEntry(resp.url.host, resp.allowedHosts[i])
    /\ (/\ resp.url.host = HostEvil
        /\ Len(resp.allowedHosts) > 0
        /\ \A i \in DOMAIN resp.allowedHosts :
             resp.allowedHosts[i] \in {HostProfile, HostSubscription, HostAccount,
                                       HostPadded, HostSubUpper})
         => ~resp.returned

\* C8 witness: evilprofile-service.example.com was checked against the
\* allow-list collectMemberData builds by default and was rejected
C8_Witness ==
  /\ resp.op = "validateUrl"
  /\ resp.url = Url("http:", HostEvil)
  /\ resp.allowedHosts = <<HostProfile, HostSubscription, HostAccount>>
  /\ ~resp.returned

\* C11: the cached Graph token is never handed out past its nominal expiry.
\* Whenever the cache holds a token that came with an expires_in, the entry
\* lapses before the token's nominal expiry (its issue time plus expires_in)
\* and no later than 55 minutes after it was acquired, so a call made while
\* the entry is live returns a token that has not expired.
C11_CachedTokenWithinLifetime ==
  (cachedToken.present /\ cachedToken.expiresIn # 0) =>
    /\ tokenExpiry < cachedToken.issuedAt + cachedToken.expiresIn
    /\ tokenExpiry <= cachedToken.issuedAt + 3300
    /\ now < tokenExpiry => now < cachedToken.issuedAt + cachedToken.expiresIn

\* C12: the statuses of generateLetter.  A 400 answers only a request with a
\* missing or malformed memberId or templateId, before any call; a context
\* without userId or tenantId is answered 401; 404 answers exactly the
\* requests whose template lookup found nothing; and every failure at or after
\* the repository fetch (fetch, member data with its URL guard, merge, upload,
\* ledger write) is answered with a 5xx status.
C12_StatusMapping ==
  (resp.op = "generateLetter" /\ resp.invoked) =>
    /\ resp.status = 400 =>
         /\ resp.calls = {}
         /\ \/ Falsy(resp.memberId) \/ Falsy(resp.id)
            \/ ~IsHex24(resp.memberId) \/ ~IsHex24(resp.id)
    /\ resp.status = 401 <=> (resp.userId = "" \/ resp.tenantId = "")
    /\ resp.status = 404 <=> (resp.kind = "notFound" /\ resp.calls = {"db.read"})
    /\ ("repo.fetch" \in resp.calls /\ resp.kind # "success") => resp.status >= 500
    /\ resp.kind = "success" <=> resp.status = 201

\* response r answers an accepted request of one of the five operations for
\* an identifier under which the caller's tenant has no template
Unowned(r) ==
  /\ r.invoked
  /\ r.op \in IsolatedOps
  /\ r.userId # "" /\ r.tenantId # ""
  /\ IsHex24(r.id)
  /\ r.op = "generateLetter" => IsHex24(r.memberId)
  /\ LET oid == CastObjectId(r.id.v) IN
     \A d \in templates : ~(d.id = oid /\ d.tenantId = r.tenantId)

\* the not-found answer of each operation
NotFoundStatus(op) == IF op = "generateLetter" THEN 404 ELSE 200
NotFoundKind(op) == IF op = "generateLetter" THEN "notFound" ELSE "notFoundRecord"
LookupCall(op) == IF op = "deleteTemplate" THEN {"db.write"} ELSE {"db.read"}

\* C13 (as amended): existence is not leaked across tenants.  The answer to a
\* get, update, delete, extract-placeholders or generate-letter request for an
\* identifier under which the caller's tenant has no template is the same
\* whether another tenant has a template under it or nobody has: the
\* operation's not-found answer after the one tenant-scoped lookup (404 for
\* generate-letter, 200 with no record for the four template operations), or
\* the failure of that lookup; it carries nothing of any template and the
\* step changes no template, file, artifact or ledger entry.  (A
\* generate-letter request is judged at the step in which its lookup is
\* answered.)
C13_NoExistenceLeak ==
  [][(/\ resp' # resp
      /\ Unowned(resp')
      /\ resp'.op = "generateLetter" =>
            \E s \in DOMAIN slots :
              /\ slots[s].pc = "findOne" /\ slots'[s].pc = "idle"
              /\ Str(slots[s].templateId) = resp'.id
              /\ slots[s].tenantId = resp'.tenantId) =>
       /\ resp'.data = {}
       /\ resp'.letter = NoLetter
       /\ resp'.calls = LookupCall(resp'.op)
       /\ \/ /\ resp'.status = NotFoundStatus(resp'.op)
             /\ resp'.kind = NotFoundKind(resp'.op)
          \/ /\ resp'.status = 500
             /\ resp'.kind = "serverError"
       /\ UNCHANGED <<templates, files, fields, ledger, blobs>>]_vars

\* C13 witness: tenant t1 asked to delete the identifier of tenant t2's
\* template, which is still stored, and got the not-found answer
C13_Witness ==
  /\ resp.op = "deleteTemplate"
  /\ resp.tenantId = "t1"
  /\ resp.id = Str(IdB)
  /\ resp.kind = "notFoundRecord"
  /\ resp.calls = {"db.write"}
  /\ TemplateB \in templates

\* C13 as stated: the not-found answer of each of the five operations has
\* status 404
C13_NotFoundIs404 ==
  (resp.invoked /\ resp.op \in IsolatedOps /\ resp.kind \in NotFoundKinds)
    => resp.status = 404

\* C14: a step of updateTemplate or extractPlaceholders leaves the fileId of
\* every template as it was, and removes and adds no template; the only drive
\* item such a step may change is the existing item that the updated template
\* of the caller's tenant points at, whose content the upload replaces
C14_FileIdStable ==
  [][resp'.op \in {"updateTemplate", "extractPlaceholders"} =>
       /\ \A d \in templates : \E e \in templates' : e.id = d.id /\ e.fileId = d.fileId
       /\ \A e \in templates' : \E d \in templates : e.id = d.id /\ e.fileId = d.fileId
       /\ \A f \in FileIds :
            files'[f] # files[f] =>
              /\ resp'.op = "updateTemplate"
              /\ files[f] # NoFile
              /\ \E d \in templates :
                   /\ d.fileId = f
                   /\ d.tenantId = resp'.tenantId
                   /\ d.id = CastObjectId(resp'.id.v)]_vars

\* C14 witness: the content of template A's file was replaced by an update
\* and the template still points at the same item
C14_Witness ==
  /\ resp.op = "updateTemplate"
  /\ resp.invoked
  /\ files["fA"] = "pkg2"
  /\ \E d \in templates : d.id = IdA /\ d.fileId = "fA"

\* the text holds a marker from i to j: {{, a name without braces that may
\* be empty, }}
MarkerAt(text, i, j) ==
  /\ j >= i + 3
  /\ SubSeq(text, i, i + 1) = <<"{", "{">>
  /\ SubSeq(text, j - 1, j) = <<"}", "}">>
  /\ \A k \in (i + 2)..(j - 2) : text[k] \notin {"{", "}"}

MarkersOf(text) ==
  {<<i, j>> \in (1..Len(text)) \X (1..Len(text)) : MarkerAt(text, i, j)}

MarkerName(text, m) == Trim(SubSeq(text, m[1] + 2, m[2] - 2))

\* every brace of the text belongs to a marker
BracesInMarkers(text) ==
  \A k \in 1..Len(text) :
    text[k] \in {"{", "}"} =>
      \E m \in MarkersOf(text) : k \in {m[1], m[1] + 1, m[2] - 1, m[2]}

\* where name is first marked in text
FirstMarked(text, name) ==
  LET at == {m[1] : m \in {x \in MarkersOf(text) : MarkerName(text, x) = name}}
  IN CHOOSE i \in at : \A k \in at : i <= k

\* C15: the list extracted from a document text holds no name twice and no
\* name that is empty or has surrounding whitespace; in a text whose braces
\* all belong to {{name}} markers it holds exactly the trimmed non-empty
\* marker names, in the order of their first occurrence; a text in which no
\* marker opens gives the empty list; a second extraction gives the same list
C15_ExtractionDeterministic ==
  (resp.op = "scanPlaceholders" /\ resp.runs >= 1) =>
    LET list == resp.first
        text == resp.text
    IN
    /\ \A i, j \in 1..Len(list) : list[i] = list[j] => i = j
    /\ \A i \in 1..Len(list) : list[i] # <<>> /\ Trim(list[i]) = list[i]
    /\ (\A k \in 1..(Len(text) - 1) : SubSeq(text, k, k + 1) # <<"{", "{">>)
         => list = <<>>
    /\ BracesInMarkers(text) =>
         /\ {list[i] : i \in 1..Len(list)} =
              {MarkerName(text, m) : m \in MarkersOf(text)} \ {<<>>}
         /\ \A i, j \in 1..Len(list) :
              i < j => FirstMarked(text, list[i]) < FirstMarked(text, list[j])
    /\ resp.runs = 2 => resp.second = resp.first

\* C15 witness: a text marking a, b and a again, the first a padded, was
\* scanned twice and gave a then b
C15_Witness ==
  /\ resp.op = "scanPlaceholders"
  /\ resp.runs = 2
  /\ resp.text = Marker(<<" ", "a", " ">>) \o Marker(<<"b">>) \o Marker(<<"a">>)
  /\ resp.first = <<<<"a">>, <<"b">>>>

\* C16: a handler that opened a package without word/document.xml to extract
\* placeholders (upload, file replacement, extractPlaceholders) answers with
\* an error of status 400 or above, never with a success
C16_MissingDocumentXmlFails ==
  (resp.op \in {"uploadTemplate", "updateTemplate", "extractPlaceholders"}
     /\ resp.invoked /\ resp.scanned # NoFile /\ ~HasDocumentXml(resp.scanned)) =>
    /\ resp.kind # "success"
    /\ resp.status >= 400

\* C16, the extractPlaceholders part: it answers a stored package without
\* word/document.xml with a server error and stores no list
C16_ExtractSurfacesError ==
  [][(resp'.op = "extractPlaceholders" /\ resp' # resp
        /\ resp'.scanned # NoFile /\ ~HasDocumentXml(resp'.scanned)) =>
       /\ resp'.status = 500
       /\ resp'.kind = "serverError"
       /\ templates' = templates]_vars

\* list names exactly the markers of text: each trimmed non-empty marker name
\* once, in the order of first occurrence
ListsMarkers(text, list) ==
  /\ \A i, j \in 1..Len(list) : list[i] = list[j] => i = j
  /\ {list[i] : i \in 1..Len(list)} =
       {MarkerName(text, m) : m \in MarkersOf(text)} \ {<<>>}
  /\ \A i, j \in 1..Len(list) :
       i < j => FirstMarked(text, list[i]) < FirstMarked(text, list[j])

C18_CatalogKeyResolves ==
  (resp.op = "mergeTemplate" /\ resp.merged
     /\ resp.profile.membershipNumber # Absent) =>
    \A f \in resp.rendered :
      (f.tag = KeyMembershipNumber /\ f.tag \in FieldCatalogKeys) =>
        f.value = resp.profile.membershipNumber

\* C19: when a generation has succeeded, the ledger entry the response names
\* has the file name returned to the caller and the path made of the caller's
\* tenant, the member of the request and that file name; an artifact is stored
\* at exactly that path; and the file name is fresh: no other entry and no
\* artifact at another path carries it
C19_ArtifactPathFromContext ==
  (resp.op = "generateLetter" /\ resp.invoked /\ resp.kind = "success") =>
    \E e \in ledger :
      /\ e.id = resp.letter.letterId
      /\ e.fileName = resp.letter.fileName
      /\ resp.tenantId # ""
      /\ e.blobPath = <<resp.tenantId, resp.memberId.v, resp.letter.fileName>>
      /\ \E b \in blobs : b.path = e.blobPath
      /\ \A o \in ledger \ {e} : o.fileName # e.fileName
      /\ \A b \in blobs : b.path[3] = e.fileName => b.path = e.blobPath

\* C19 witness: a second generation for the same member and tenant has
\* succeeded; its entry's path is t1/<member>/<its own file name>
C19_Witness ==
  /\ resp.op = "generateLetter"
  /\ resp.kind = "success"
  /\ Cardinality(ledger) = 2
  /\ resp.letter.urlPath = <<"t1", IdM, resp.letter.fileName>>
  /\ \E e \in ledger : e.id = resp.letter.letterId /\ e.blobPath = resp.letter.urlPath

\* C20: when a generation has succeeded, the ledger entry the response names
\* carries the caller's userId as createdBy, the caller's tenantId, and the
\* memberId and templateId of the request
C20_LedgerRecordsWhoAndWhat ==
  (resp.op = "generateLetter" /\ resp.invoked /\ resp.kind = "success") =>
    \E e \in ledger :
      /\ e.id = resp.letter.letterId
      /\ e.tenantId = resp.tenantId
      /\ Str(e.memberId) = resp.memberId
      /\ Str(e.templateId) = resp.id
      /\ "createdBy" \in DOMAIN e
      /\ e.createdBy = resp.userId

\* C20, without createdBy: the entry carries the caller's tenantId and the
\* memberId and templateId of the request
C20_LedgerRecordsWhat ==
  (resp.op = "generateLetter" /\ resp.invoked /\ resp.kind = "success") =>
    \E e \in ledger :
      /\ e.id = resp.letter.letterId
      /\ e.tenantId = resp.tenantId
      /\ Str(e.memberId) = resp.memberId
      /\ Str(e.templateId) = resp.id

\* C21: the ledger is append-only.  In every step of every operation (letter
\* generation, template upload, update and delete, catalog changes) each
\* entry of the ledger stays in it unchanged, and an entry that is added has
\* an id and a file name that no earlier entry has
C21_LedgerAppendOnly ==
  [][/\ \A e \in ledger : e \in ledger'
     /\ \A n \in ledger' \ ledger :
          \A e \in ledger : e.id # n.id /\ e.fileName # n.fileName
     /\ Cardinality(ledger' \ ledger) <= 1]_vars

\* C21 witness: two letters were generated from template A, then the
\* template was deleted; both entries are still in the ledger
C21_Witness ==
  /\ resp.op = "deleteTemplate"
  /\ resp.kind = "success"
  /\ \A d \in templates : d.id # IdA
  /\ Cardinality({e \in ledger : e.templateId = IdA}) = 2

\* C22, as amended: for an error that is no AppError and none of the errors
\* the handler converts, the response has status 500; in production, and in
\* every environment other than development, its message is the generic one
\* and it carries no internal message or stack; in development it carries the
\* error's message (the generic one if the error has none) and the stack
C22_InternalDetailOnlyInDevelopment ==
  (resp.op = "errorHandler" /\ resp.handled /\ resp.err.kind = "Error") =>
    /\ resp.body.status = 500
    /\ resp.nodeEnv # "development" =>
         /\ resp.body.message = GenericMessage
         /\ resp.body.details = NoDetails
    /\ resp.nodeEnv = "development" =>
         /\ resp.body.message =
              IF resp.err.message # "" THEN resp.err.message ELSE GenericMessage
         /\ resp.body.details = [originalError |-> resp.err.message, stack |-> TRUE]

\* C22 witness: a repository failure handled in production
C22_Witness ==
  /\ resp.op = "errorHandler"
  /\ resp.handled
  /\ resp.err.kind = "Error"
  /\ resp.err.message = "connect ECONNREFUSED 10.0.0.5:27017"
  /\ resp.nodeEnv = "production"
  /\ resp.body = ErrorBody(500, "error", GenericMessage, NoDetails)

\* C22 as stated: in every non-production environment the response carries
\* the real error message
C22_RealMessageOutsideProduction ==
  (resp.op = "errorHandler" /\ resp.handled /\ resp.err.kind = "Error"
     /\ resp.nodeEnv # "production" /\ resp.err.message # "") =>
    resp.body.message = resp.err.message

\* C23, as amended: the signed URL of a successful generation permits reading
\* only, names exactly the path of the stored artifact and of the ledger
\* entry, and is valid for exactly one hour from the instant it was minted,
\* which is after the ledger write and so not before the upload completed
C23_SignedUrlWindow ==
  (resp.op = "generateLetter" /\ resp.invoked /\ resp.kind = "success") =>
    LET url == resp.letter.url IN
    /\ url.permissions = "r"
    /\ url.path = <<resp.tenantId, resp.memberId.v, resp.letter.fileName>>
    /\ \E b \in blobs : b.path = url.path
    /\ \E e \in ledger : e.id = resp.letter.letterId /\ e.blobPath = url.path
    /\ url.expiresOn = url.startsOn + 3600
    /\ resp.letter.uploadedAt <= url.startsOn
    /\ url.startsOn <= now

\* C23 witness: the ledger write of a successful generation resolved 300 s
\* after its upload had completed
C23_Witness ==
  /\ resp.op = "generateLetter"
  /\ resp.kind = "success"
  /\ resp.letter.uploadedAt = 300
  /\ resp.letter.url.startsOn = 600
  /\ resp.letter.url.expiresOn = 4200

\* C23 as stated: the window ends one hour after the upload completed
C23_WindowFromUploadInstant ==
  (resp.op = "generateLetter" /\ resp.invoked /\ resp.kind = "success") =>
    resp.letter.url.expiresOn = resp.letter.uploadedAt + 3600

\* the position of an await of generateLetter in the handler's text
StageRank(pc) ==
  CASE pc = "idle" -> 0
    [] pc = "findOne" -> 1
    [] pc = "getFile" -> 2
    [] pc = "collect" -> 3
    [] pc = "upload" -> 4
    [] pc = "create" -> 5

\* the collaborator calls of generateLetter in the order of the handler's text
CallOrder ==
  <<"db.read", "repo.fetch", "upstream.profile", "upstream.subscription",
    "upstream.account", "blob.upload", "db.write">>

CallsUpTo(n) == {CallOrder[i] : i \in 1..n}

\* how many calls a request that ended at an await had made
CallCounts(pc) ==
  CASE pc = "findOne" -> {1}
    [] pc = "getFile" -> {2}
    [] pc = "collect" -> 2..5
    [] pc = "upload" -> {6}
    [] pc = "create" -> {7}

\* C24: every request moves through the awaits of generateLetter in the one
\* order findOne, getFile, collect (aggregate, then render), upload, create,
\* one await at a time and never back; it enters the first only with valid
\* ids, leaves the upload only with its artifact stored, and when it ends in a
\* failure it has made exactly the calls up to the failing stage, none of a
\* later stage, and the step stores nothing; only a request that passed the
\* last stage ends in success.
C24_StagesInOrder ==
  [][\A s \in DOMAIN slots :
       LET r == slots[s]
           q == slots'[s]
       IN
       r.pc # q.pc =>
         \/ /\ r.pc = "idle"
            /\ q.pc = "findOne"
            /\ validateObjectId(Str(q.memberId))
            /\ validateObjectId(Str(q.templateId))
         \/ /\ r.pc # "idle"
            /\ StageRank(q.pc) = StageRank(r.pc) + 1
            /\ r.pc = "upload" =>
                 \E b \in blobs' : b.path = <<r.tenantId, r.memberId, r.uuid>>
            /\ resp' = resp
         \/ /\ r.pc # "idle"
            /\ q = Idle
            /\ resp'.op = "generateLetter"
            /\ \E n \in CallCounts(r.pc) : resp'.calls = CallsUpTo(n)
            /\ resp'.kind = "success" => r.pc = "create"
            /\ resp'.kind # "success" => blobs' = blobs /\ ledger' = ledger]_vars

\* C24 witness: a request that failed at the upload has ended while another
\* is waiting for its template bytes
C24_Witness ==
  /\ resp.op = "generateLetter"
  /\ resp.kind = "serverError"
  /\ resp.calls = CallsUpTo(6)
  /\ blobs = {}
  /\ ledger = {}
  /\ \E s \in DOMAIN slots : slots[s].pc = "getFile"

\* C25: a call of collectMemberData that sent any upstream request had all
\* three of its URLs accepted by validateUrl against the allow-list; a call
\* in which validateUrl rejects one of the three fails as a bad request with
\* no request sent; and every host requested is the host of a validated URL.
C25_GuardBeforeRequests ==
  (resp.op = "collectMemberData" /\ resp.returned) =>
    LET env == resp.env
        allowedHosts == env.allowed \o <<HostProfile, HostSubscription, HostAccount>>
        passed == /\ validateUrl(env.profile, allowedHosts)
                  /\ validateUrl(env.subscription, allowedHosts)
                  /\ validateUrl(env.account, allowedHosts)
    IN
    /\ resp.sent # {} => passed
    /\ ~passed => resp.out = "badRequest" /\ resp.sent = {} /\ resp.requested = {}
    /\ resp.requested \subseteq
         {toLowerCase(env.profile.host), toLowerCase(env.subscription.host),
          toLowerCase(env.account.host)}
    /\ \A h \in resp.requested : validateUrl(Url("http:", h), allowedHosts)

\* C25 witness: the profile URL is acceptable, the subscription URL names a
\* private address that the allow-list contains, every upstream would have
\* answered, and the call failed having sent nothing
C25_Witness ==
  /\ resp.op = "collectMemberData"
  /\ resp.returned
  /\ resp.memberId = IdM
  /\ resp.env.profile.host = HostProfile
  /\ resp.env.subscription.host = HostTen
  /\ resp.env.allowed = <<HostTen>>
  /\ resp.outcomes = <<"2xx", "2xx", "2xx">>
  /\ resp.out = "badRequest"
  /\ resp.sent = {}

\* the position in the upstream outcomes of the service a data key comes from
ServiceOf(key) ==
  IF key \in {DataMembershipStatus, DataExpiryDate} THEN 2
  ELSE IF key = DataOutstandingBalance THEN 3
  ELSE 1

\* C26: when the aggregation step runs with an accepted configuration and a
\* renderable template, upstream answers that are all 2xx or 4xx let the
\* request go on to the upload with every field of a 4xx service absent from
\* the data, and any 5xx, timeout or refused connection ends it with a 500
\* and nothing stored; the upload and the ledger write of a request then
\* succeed whatever fields are absent, after all three upstream calls.
C26_ClientErrorsTolerated ==
  [][\A s \in DOMAIN slots :
       /\ \A env \in EnvConfigs : \A o \in OutcomeInputs :
            (/\ slots[s].pc = "collect"
             /\ slots[s].buffer # "pkgNoBody"
             /\ UrlGuardVerdict[env]
             /\ GenCollect(s, env, o))
              => IF \A i \in 1..3 : o[i] \in {"2xx", "4xx"}
                 THEN /\ slots'[s].pc = "upload"
                      /\ resp' = resp
                      /\ \A key \in DOMAIN slots'[s].data :
                           o[ServiceOf(key)] = "4xx" => slots'[s].data[key] = "undefined"
                      /\ o[2] = "2xx" => slots'[s].data[DataMembershipStatus] = "active"
                 ELSE /\ slots'[s] = Idle
                      /\ resp'.status = 500
                      /\ resp'.kind = "serverError"
                      /\ blobs' = blobs
                      /\ ledger' = ledger
       /\ GenUpload(s, "none") =>
            slots'[s].pc = "create" /\ slots'[s].data = slots[s].data
       /\ GenCreate(s, "none") =>
            /\ resp'.kind = "success"
            /\ resp'.letter.data = slots[s].data
            /\ {"upstream.profile", "upstream.subscription", "upstream.account"}
                 \subseteq resp'.calls]_vars

\* C26 witness: a letter was generated, stored and recorded although the
\* profile and account services had answered 4xx: the data it was merged with
\* has the subscription's fields only
C26_Witness ==
  /\ resp.op = "generateLetter"
  /\ resp.kind = "success"
  /\ resp.letter.data # <<>>
  /\ resp.letter.data[DataMemberName] = "undefined"
  /\ resp.letter.data[DataOutstandingBalance] = "undefined"
  /\ resp.letter.data[DataMembershipStatus] = "active"
  /\ \E e \in ledger : e.id = resp.letter.letterId
  /\ \E b \in blobs : b.path = resp.letter.urlPath

\* C27: an artifact in storage that no ledger entry names and whose request
\* is not still waiting for its ledger write is either one that was already
\* in that condition, or the artifact of a request whose ledger write has
\* just failed: that step answers 500 after the write was attempted, leaves
\* storage and ledger as they were, and the artifact stays; an artifact once
\* left without an entry remains in storage and never gets one.
C27_OrphanOnlyByFailedLedgerWrite ==
  [][/\ \A a \in blobs : a \in blobs'
     /\ \A b \in blobs' :
          LET named == \E e \in ledger : e.blobPath = b.path
              pending == \E s \in DOMAIN slots :
                           slots[s].pc = "create"
                           /\ b.path = <<slots[s].tenantId, slots[s].memberId,
                                         slots[s].uuid>>
              namedAfter == \E e \in ledger' : e.blobPath = b.path
              pendingAfter == \E s \in DOMAIN slots :
                                slots'[s].pc = "create"
                                /\ b.path = <<slots'[s].tenantId, slots'[s].memberId,
                                              slots'[s].uuid>>
          IN
          /\ (~namedAfter /\ ~pendingAfter) =>
               \/ b \in blobs /\ ~named /\ ~pending
               \/ /\ b \in blobs
                  /\ pending
                  /\ blobs' = blobs
                  /\ ledger' = ledger
                  /\ resp'.op = "generateLetter"
                  /\ resp'.status = 500
                  /\ resp'.kind = "serverError"
                  /\ "db.write" \in resp'.calls
                  /\ resp'.letter = NoLetter
          /\ (b \in blobs /\ ~named /\ ~pending) => ~namedAfter /\ ~pendingAfter]_vars

\* C27 witness: a ledger write failed after its upload, a later request was
\* recorded, and the first artifact is in storage with no entry naming it
C27_Witness ==
  /\ resp.op = "generateLetter"
  /\ resp.kind = "success"
  /\ Cardinality(blobs) = 2
  /\ Cardinality(ledger) = 1
  /\ \A s \in DOMAIN slots : slots[s].pc = "idle"
  /\ \E b \in blobs : \A e \in ledger : e.blobPath # b.path

\* C28: whatever the interleaving of getGraphToken calls, a step changes the
\* cached token or its expiry only by storing both together, the token being
\* the one the credential endpoint answered that call with and the expiry
\* computed now from that token's expires_in; a call that returns successfully
\* returns the token the cache held or the one the endpoint answered it with;
\* and a step that ends a call in an error leaves token and expiry unchanged.
C28_CachePairConsistent ==
  [][/\ (cachedToken' # cachedToken \/ tokenExpiry' # tokenExpiry) =>
          \E c \in DOMAIN tokenCalls :
            /\ tokenCalls[c].pc = "response"
            /\ tokenCalls'[c].pc = "idle"
            /\ tokenCalls[c].token.present
            /\ cachedToken' = tokenCalls[c].token
            /\ LET e == cachedToken'.expiresIn
                   expiresIn == IF e = 0 THEN 3600 ELSE e
                   capped == IF expiresIn - 300 <= 3300 THEN expiresIn - 300 ELSE 3300
               IN tokenExpiry' = now + (IF capped >= 3000 THEN capped ELSE 3000)
            /\ resp' = [op |-> "getGraphToken", token |-> cachedToken',
                        cached |-> FALSE, outcome |-> "ok"]
     /\ (resp' # resp /\ resp'.outcome = "ok") =>
          /\ resp'.token.present
          /\ resp'.token.issuedAt <= now
          /\ \/ resp'.cached /\ resp'.token = cachedToken /\ now < tokenExpiry
             \/ \E c \in DOMAIN tokenCalls :
                  tokenCalls[c].pc = "response" /\ resp'.token = tokenCalls[c].token
     /\ (\E c \in DOMAIN tokenCalls :
           tokenCalls[c].pc # "idle" /\ tokenCalls'[c].pc = "idle"
           /\ ~tokenCalls[c].token.present) =>
          /\ resp'.outcome = "error"
          /\ cachedToken' = cachedToken
          /\ tokenExpiry' = tokenExpiry
     /\ (cachedToken.present <=> tokenExpiry # 0)
     /\ cachedToken.present => tokenExpiry >= cachedToken.issuedAt + 3000]_vars

\* C28 witness: the cache holds a token that was issued at 0 and stored 1500 s
\* later by a call that resumed late, the entry has lapsed, and the failed
\* refresh of a later call has left it in place
C28_Witness ==
  /\ resp.op = "getGraphToken"
  /\ resp.outcome = "error"
  /\ cachedToken.present
  /\ cachedToken.issuedAt = 0
  /\ cachedToken.expiresIn = 1800
  /\ tokenExpiry = 4500
  /\ now >= tokenExpiry
  /\ \A c \in DOMAIN tokenCalls : tokenCalls[c].pc = "idle"

DocsOf(store, event) ==
  {doc \in store.docs : doc.tenantId = event.tenantId /\ doc.userId = event.userId}

============================================================================
